---- MODULE Spec2Model ----
(***************************************************************************)
(* api_livekit: the HTTP API (API keys, assistants, tools, outbound SIP    *)
(* trunks, outbound calls, behind the bearer-token dependency), the tool   *)
(* builder, and the agent worker with the call-record methods of           *)
(* LiveKitService.  The document store is one sequence per collection.  A  *)
(* handler of the API is one action, with the HTTP response of the last    *)
(* request in the variable resp; the coroutines of the worker advance one  *)
(* await at a time, and so do the handlers of /auth/create-key and of the  *)
(* tool routes where requests in flight are interleaved.                   *)
(***************************************************************************)
EXTENDS Integers, Sequences, FiniteSets, TLC

VARIABLES
    api_keys,      \* collection "api_keys":   <<APIKey, ...>> in insertion order
    assistants,    \* collection "assistants": <<Assistant, ...>>
    tools,         \* collection "tools":      <<Tool, ...>>
    trunks,        \* collection "outbound_sip": <<OutboundSIP, ...>>
    now,           \* the value datetime.utcnow() returns
    resp,          \* the response to the last request
    built,         \* what the last build_tools_from_db call returned
    invocation,    \* the last invocation of a built tool's executor
    call_records,  \* collection "call_records": <<CallRecord, ...>>
    job,           \* the worker job: where entrypoint(ctx) stands, its locals
    room,          \* the room of the job: who is in it, what was said
    tasks,         \* the coroutines in flight: tasks of the worker, handlers of the API
    posts,         \* the POSTs made to end-call URLs
    history        \* what has happened to the job, in order

vars == <<api_keys, assistants, tools, trunks, now, resp, built, invocation,
          call_records, job, room, tasks, posts, history>>

\* The call session of the agent worker: its job, its room, its tasks.
session == <<call_records, job, room, tasks, posts, history>>

\* The state of the agent worker process, which no HTTP handler touches.
agent == <<built, invocation, call_records, job, room, tasks, posts, history>>

\* The document store.
store == <<api_keys, assistants, tools, trunks>>

-----------------------------------------------------------------------------
(* Bounds of the model.                                                     *)
MaxAssistants == 2
MaxTools == 2
MaxTrunks == 1
MaxTime == 1
MaxReqLen == 2
MaxFieldsDocs == 1

-----------------------------------------------------------------------------
(* Values.                                                                  *)

\* Python's None; also the value of an Optional field that is not set.
None == "None"

\* Caller e-mail addresses (CreateApiKey.user_email).
Emails == {"a@x.io", "b@x.io"}

\* A bearer token: k >= 1 stands for the k-th secret create_api_key generated
\* ("lvk_" + secrets.token_urlsafe(32)), 0 for a string that was never issued.
Tokens == 0..Cardinality(Emails)

\* Path parameters: ids that may or may not name a stored document.  The
\* k-th uuid4 drawn for a collection is written k.
AssistantIds == 1..MaxAssistants
ToolIds == 1..MaxTools
TrunkIds == 1..MaxTrunks

\* Field values of the request bodies.
AssistantNames == {"asst"}
TtsModels == {"cartesia", "sarvam"}
VoiceIds == {None, "voice-1"}
Speakers == {None, "", "anushka"}
ToolNames == {"lookup_weather"}
ExecutionTypes == {"webhook", "static_return"}
TrunkTypes == {"twilio", "exotel"}

\* Python truthiness of an Optional[str]: None and "" are falsy.
Truthy(v) == v # None /\ v # ""

Range(s) == {s[i] : i \in DOMAIN s}

\* What find_one returns when no document matches (None, as a document).
NoDoc == [missing |-> TRUE]

\* Document.find_one(...): the first of the matching documents, or NoDoc.
\* A filter [x for x in s if ...] or find(...) is SelectSeq.
FindOne(hits) ==
    IF hits = <<>> THEN NoDoc ELSE hits[1]

\* The position in its collection of the document whose field idField is id
\* (ids are unique: Indexed(str, unique=True)).
IndexOf(coll, idField, id) ==
    CHOOSE i \in DOMAIN coll : coll[i][idField] = id

\* request.model_dump(exclude_unset=True): the supplied fields only.  A field
\* that was not supplied reads as its default, None, in the validators.
Supplied(body) == DOMAIN body
Field(body, f) == IF f \in DOMAIN body THEN body[f] ELSE None

\* {"$set": update_data} on one document.
SetFields(doc, update_data) ==
    [f \in DOMAIN doc |-> IF f \in DOMAIN update_data THEN update_data[f] ELSE doc[f]]

-----------------------------------------------------------------------------
(* Responses.  status is the HTTP status the exception handlers of         *)
(* server.py put on the wire, token the bearer token of the request that   *)
(* is answered (NoToken on the route that takes none), caller the          *)
(* authenticated principal (None when there is none), data the payload     *)
(* together with the counts the handler reports in its message or log.     *)
Response(op, status, token, caller, data) ==
    [op |-> op, status |-> status, token |-> token, caller |-> caller, data |-> data]

\* A request without credentials.
NoToken == 0

\* data={} of the error envelope.
NoData == [none |-> TRUE]

\* No request is being answered.
Idle == Response("none", 0, NoToken, None, NoData)
IsIdle == resp.op = "none"

\* The server answers one request at a time: a handler runs when the previous
\* response has gone out, and leaves its own response in resp.
Respond(op, status, token, caller, data) ==
    /\ IsIdle
    /\ resp' = Response(op, status, token, caller, data)
    /\ UNCHANGED agent

\* Nothing has been built or invoked.
NotRun == [not_run |-> TRUE]

\* No job has been assigned to the worker, and no room.
NoJob == [pc |-> "none"]
NoRoom == [participants |-> {}, left |-> {}, events |-> 0, items |-> 0, end_calls |-> 0]

Init ==
    /\ api_keys = <<>>
    /\ assistants = <<>>
    /\ tools = <<>>
    /\ trunks = <<>>
    /\ now = 0
    /\ resp = Idle
    /\ built = NotRun
    /\ invocation = NotRun
    /\ call_records = <<>>
    /\ job = NoJob
    /\ room = NoRoom
    /\ tasks = <<>>
    /\ posts = <<>>
    /\ history = <<>>

\* datetime.utcnow() does not go back; time passes between requests.
Tick ==
    /\ IsIdle
    /\ now < MaxTime
    /\ now' = now + 1
    /\ UNCHANGED <<api_keys, assistants, tools, trunks, resp>>
    /\ UNCHANGED agent

-----------------------------------------------------------------------------
(* Credential verification (api/dependencies.py).                           *)

\* Faulty variant: the lookup without APIKey.is_active == True.
get_current_user_AnyState(token) ==
    FindOne(SelectSeq(api_keys, LAMBDA k : k.api_key = token))

\* APIKey.find_one(APIKey.api_key == api_key_str, APIKey.is_active == True)
get_current_user(token) ==
    FindOne(SelectSeq(api_keys, LAMBDA k : k.api_key = token /\ k.is_active))

\* raise HTTPException(401): the route handler is not entered.
Unauthorized(op, token) ==
    /\ Respond(op, 401, token, None, NoData)
    /\ UNCHANGED <<api_keys, assistants, tools, trunks, now>>

\* A response that changes no document.
Reply(op, status, token, caller, data) ==
    /\ Respond(op, status, token, caller, data)
    /\ UNCHANGED <<api_keys, assistants, tools, trunks, now>>

\* validation_exception_handler: the status of the JSONResponse it returns.
validation_exception_status == 422

\* Faulty variant: the handler answers 400.
validation_exception_handler_400(op, token, caller) ==
    Reply(op, 400, token, caller, [success |-> FALSE, errors |-> TRUE])

\* A RequestValidationError (a field or model validator of the request
\* schema has raised) never reaches the route function:
\* validation_exception_handler answers with the error envelope.
validation_exception_handler(op, token, caller) ==
    Reply(op, validation_exception_status, token, caller, [success |-> FALSE, errors |-> TRUE])

-----------------------------------------------------------------------------
(* /auth (api/routes/auth.py).                                              *)

create_api_key(email) ==
    /\ IsIdle
    /\ IF \E i \in DOMAIN api_keys : api_keys[i].user_email = email
       THEN Reply("create_api_key", 400, NoToken, None, NoData)
       ELSE LET key == Len(api_keys) + 1
            IN  /\ api_keys' = Append(api_keys,
                       [api_key |-> key, user_email |-> email, is_active |-> TRUE])
                /\ Respond("create_api_key", 200, NoToken, None, [api_key |-> key])
                /\ UNCHANGED <<assistants, tools, trunks, now>>

check_api_key(token) ==
    /\ IsIdle
    /\ LET user == get_current_user(token)
       IN  IF user = NoDoc
           THEN Unauthorized("check_api_key", token)
           ELSE Reply("check_api_key", 200, token, user.user_email, NoData)

\* APIKey.is_active is switched off in the store by the operator (no route
\* writes it): "deactivated, never hard-deleted".
DeactivateKey(i) ==
    /\ IsIdle
    /\ i \in DOMAIN api_keys
    /\ api_keys[i].is_active
    /\ api_keys' = [api_keys EXCEPT ![i].is_active = FALSE]
    /\ UNCHANGED <<assistants, tools, trunks, now, resp>>
    /\ UNCHANGED agent

-----------------------------------------------------------------------------
(* /assistant (api/routes/assistant.py, api/models/api_schemas.py).         *)

\* Bodies that pass the field constraints of CreateAssistant (the Literal of
\* assistant_tts_model, min_length=1 of assistant_tts_voice_id).
CreateAssistantBodies ==
    [assistant_name : AssistantNames,
     assistant_tts_model : TtsModels,
     assistant_tts_speaker : Speakers,
     assistant_tts_voice_id : VoiceIds]

\* Faulty variant: only the required selector is checked, the forbidden one
\* is let through.
CreateAssistant_validate_tts_fields_RequiredOnly(body) ==
    IF body.assistant_tts_model = "cartesia"
    THEN Truthy(body.assistant_tts_voice_id)
    ELSE Truthy(body.assistant_tts_speaker)

\* CreateAssistant.validate_tts_fields: TRUE when no ValueError is raised.
CreateAssistant_validate_tts_fields(body) ==
    IF body.assistant_tts_model = "cartesia"
    THEN Truthy(body.assistant_tts_voice_id) /\ ~Truthy(body.assistant_tts_speaker)
    ELSE IF body.assistant_tts_model = "sarvam"
    THEN Truthy(body.assistant_tts_speaker) /\ ~Truthy(body.assistant_tts_voice_id)
    ELSE TRUE

UpdateAssistantFields ==
    {"assistant_name", "assistant_tts_model", "assistant_tts_speaker",
     "assistant_tts_voice_id"}

UpdateAssistantValues(f) ==
    CASE f = "assistant_name" -> AssistantNames
      [] f = "assistant_tts_model" -> TtsModels
      [] f = "assistant_tts_speaker" -> Speakers
      [] f = "assistant_tts_voice_id" -> VoiceIds

\* Bodies of UpdateAssistant: any subset of the fields may be supplied.
UpdateAssistantBodies ==
    UNION { { b \in [S -> AssistantNames \cup TtsModels \cup Speakers \cup VoiceIds] :
                \A f \in S : b[f] \in UpdateAssistantValues(f) } :
            S \in SUBSET UpdateAssistantFields }

\* UpdateAssistant.validate_tts_fields: TRUE when no ValueError is raised.
UpdateAssistant_validate_tts_fields(body) ==
    LET model == Field(body, "assistant_tts_model")
        speaker == Field(body, "assistant_tts_speaker")
        voice == Field(body, "assistant_tts_voice_id")
    IN  IF model = "cartesia"
        THEN Truthy(voice) /\ ~Truthy(speaker)
        ELSE IF model = "sarvam"
        THEN Truthy(speaker) /\ ~Truthy(voice)
        ELSE ~(Truthy(speaker) /\ Truthy(voice))

\* Assistant(assistant_id=..., assistant_created_by_email=..., **assistant_data)
NewAssistant(id, email, body) ==
    [assistant_id |-> id,
     assistant_name |-> body.assistant_name,
     assistant_tts_model |-> body.assistant_tts_model,
     assistant_tts_voice_id |-> body.assistant_tts_voice_id,
     assistant_tts_speaker |-> body.assistant_tts_speaker,
     assistant_created_at |-> now,
     assistant_updated_at |-> now,
     assistant_created_by_email |-> email,
     assistant_updated_by_email |-> email,
     assistant_is_active |-> TRUE,
     tool_ids |-> <<>>]

create_assistant(token, body) ==
    LET user == get_current_user(token)
        id == Len(assistants) + 1
    IN  /\ IsIdle
        /\ Len(assistants) < MaxAssistants
        /\ IF user = NoDoc
           THEN Unauthorized("create_assistant", token)
           ELSE IF ~CreateAssistant_validate_tts_fields(body)
           THEN validation_exception_handler("create_assistant", token, user.user_email)
           ELSE /\ assistants' = Append(assistants, NewAssistant(id, user.user_email, body))
                /\ Respond("create_assistant", 200, token, user.user_email, [assistant_id |-> id])
                /\ UNCHANGED <<api_keys, tools, trunks, now>>

\* Faulty variant: model_dump() without exclude_unset=True, so that every
\* field of UpdateAssistant is written, the unsupplied ones as None.
AssistantUpdateData_AllFields(body, email) ==
    [f \in UpdateAssistantFields \cup {"assistant_updated_at", "assistant_updated_by_email"} |->
        IF f = "assistant_updated_at" THEN now
        ELSE IF f = "assistant_updated_by_email" THEN email
        ELSE Field(body, f)]

\* update_data = request.model_dump(exclude_unset=True)
\* update_data.update({"assistant_updated_at": ..., "assistant_updated_by_email": ...})
AssistantUpdateData(body, email) ==
    [f \in Supplied(body) \cup {"assistant_updated_at", "assistant_updated_by_email"} |->
        IF f = "assistant_updated_at" THEN now
        ELSE IF f = "assistant_updated_by_email" THEN email
        ELSE body[f]]

\* Faulty variant: the match on assistant_id alone.
UpdateAssistantMatch_AnyOwner(a, assistant_id, email) ==
    a.assistant_id = assistant_id

\* Assistant.find_one(assistant_id == ..., assistant_created_by_email == ...)
UpdateAssistantMatch(a, assistant_id, email) ==
    a.assistant_id = assistant_id /\ a.assistant_created_by_email = email

update_assistant(token, assistant_id, body) ==
    /\ IsIdle
    /\ LET user == get_current_user(token)
       IN  IF user = NoDoc
           THEN Unauthorized("update_assistant", token)
           ELSE IF ~UpdateAssistant_validate_tts_fields(body)
           THEN validation_exception_handler("update_assistant", token, user.user_email)
           ELSE IF Supplied(body) = {}
           THEN Reply("update_assistant", 400, token, user.user_email, NoData)
           ELSE LET hit == FindOne(SelectSeq(assistants,
                               LAMBDA a : UpdateAssistantMatch(a, assistant_id, user.user_email)))
                IN  IF hit = NoDoc
                    THEN Reply("update_assistant", 404, token, user.user_email, NoData)
                    ELSE /\ assistants' =
                               [assistants EXCEPT ![IndexOf(assistants, "assistant_id", assistant_id)] =
                                   SetFields(@, AssistantUpdateData(body, user.user_email))]
                         /\ Respond("update_assistant", 200, token, user.user_email,
                                    [assistant_id |-> assistant_id])
                         /\ UNCHANGED <<api_keys, tools, trunks, now>>

\* Assistant.find(assistant_created_by_email == ..., assistant_is_active == True)
ListAssistantsMatch(a, email) ==
    a.assistant_created_by_email = email /\ a.assistant_is_active

AssistantListItem(a) ==
    [assistant_id |-> a.assistant_id,
     assistant_name |-> a.assistant_name,
     assistant_tts_model |-> a.assistant_tts_model,
     assistant_created_by_email |-> a.assistant_created_by_email]

list_assistants(token) ==
    /\ IsIdle
    /\ LET user == get_current_user(token)
       IN  IF user = NoDoc
           THEN Unauthorized("list_assistants", token)
           ELSE LET found == SelectSeq(assistants, LAMBDA a : ListAssistantsMatch(a, user.user_email))
                IN  Reply("list_assistants", 200, token, user.user_email,
                          [items |-> [i \in DOMAIN found |-> AssistantListItem(found[i])]])

\* Assistant.find_one(assistant_id == ..., created_by == ..., is_active == True)
OwnActiveAssistant(a, assistant_id, email) ==
    /\ a.assistant_id = assistant_id
    /\ a.assistant_created_by_email = email
    /\ a.assistant_is_active

get_assistant_details(token, assistant_id) ==
    /\ IsIdle
    /\ LET user == get_current_user(token)
       IN  IF user = NoDoc
           THEN Unauthorized("get_assistant_details", token)
           ELSE LET hit == FindOne(SelectSeq(assistants,
                               LAMBDA a : OwnActiveAssistant(a, assistant_id, user.user_email)))
                IN  IF hit = NoDoc
                    THEN Reply("get_assistant_details", 404, token, user.user_email, NoData)
                    ELSE Reply("get_assistant_details", 200, token, user.user_email, hit)

-----------------------------------------------------------------------------
(* /tool (api/routes/tool.py).                                              *)

CreateToolBodies ==
    [tool_name : ToolNames, tool_execution_type : ExecutionTypes]

UpdateToolFields == {"tool_name", "tool_execution_type"}

UpdateToolValues(f) ==
    CASE f = "tool_name" -> ToolNames
      [] f = "tool_execution_type" -> ExecutionTypes

UpdateToolBodies ==
    UNION { { b \in [S -> ToolNames \cup ExecutionTypes] :
                \A f \in S : b[f] \in UpdateToolValues(f) } :
            S \in SUBSET UpdateToolFields }

\* AttachToolsRequest.tool_ids; the empty list fails min_length=1.
ToolIdLists == UNION { [1..n -> ToolIds] : n \in 0..MaxReqLen }

\* Tool(tool_id=..., tool_created_by_email=..., **tool_data)
NewTool(id, email, body) ==
    [tool_id |-> id,
     tool_name |-> body.tool_name,
     tool_execution_type |-> body.tool_execution_type,
     tool_created_by_email |-> email,
     tool_updated_by_email |-> email,
     tool_created_at |-> now,
     tool_updated_at |-> now,
     tool_is_active |-> TRUE]

create_tool(token, body) ==
    LET user == get_current_user(token)
        id == Len(tools) + 1
    IN  /\ IsIdle
        /\ Len(tools) < MaxTools
        /\ IF user = NoDoc
           THEN Unauthorized("create_tool", token)
           ELSE /\ tools' = Append(tools, NewTool(id, user.user_email, body))
                /\ Respond("create_tool", 200, token, user.user_email, [tool_id |-> id])
                /\ UNCHANGED <<api_keys, assistants, trunks, now>>

\* update_data = request.model_dump(exclude_unset=True)
\* update_data.update({"tool_updated_at": ..., "tool_updated_by_email": ...})
ToolUpdateData(body, email) ==
    [f \in Supplied(body) \cup {"tool_updated_at", "tool_updated_by_email"} |->
        IF f = "tool_updated_at" THEN now
        ELSE IF f = "tool_updated_by_email" THEN email
        ELSE body[f]]

\* Tool.find_one(Tool.tool_id == tool_id, Tool.tool_created_by_email == ...)
UpdateToolMatch(t, tool_id, email) ==
    t.tool_id = tool_id /\ t.tool_created_by_email = email

update_tool(token, tool_id, body) ==
    /\ IsIdle
    /\ LET user == get_current_user(token)
       IN  IF user = NoDoc
           THEN Unauthorized("update_tool", token)
           ELSE IF Supplied(body) = {}
           THEN Reply("update_tool", 400, token, user.user_email, NoData)
           ELSE LET hit == FindOne(SelectSeq(tools, LAMBDA t : UpdateToolMatch(t, tool_id, user.user_email)))
                IN  IF hit = NoDoc
                    THEN Reply("update_tool", 404, token, user.user_email, NoData)
                    ELSE /\ tools' = [tools EXCEPT ![IndexOf(tools, "tool_id", tool_id)] =
                                           SetFields(@, ToolUpdateData(body, user.user_email))]
                         /\ Respond("update_tool", 200, token, user.user_email, [tool_id |-> tool_id])
                         /\ UNCHANGED <<api_keys, assistants, trunks, now>>

\* Faulty variant: the filter without Tool.tool_is_active == True.
ListToolsMatch_AnyState(t, email) ==
    t.tool_created_by_email = email

\* Tool.find(Tool.tool_created_by_email == ..., Tool.tool_is_active == True)
ListToolsMatch(t, email) ==
    t.tool_created_by_email = email /\ t.tool_is_active

ToolListItem(t) ==
    [tool_id |-> t.tool_id,
     tool_name |-> t.tool_name,
     tool_execution_type |-> t.tool_execution_type,
     tool_created_at |-> t.tool_created_at]

list_tools(token) ==
    /\ IsIdle
    /\ LET user == get_current_user(token)
       IN  IF user = NoDoc
           THEN Unauthorized("list_tools", token)
           ELSE LET found == SelectSeq(tools, LAMBDA t : ListToolsMatch(t, user.user_email))
                IN  Reply("list_tools", 200, token, user.user_email,
                          [items |-> [i \in DOMAIN found |-> ToolListItem(found[i])]])

\* Tool.find_one(tool_id == ..., tool_created_by_email == ..., tool_is_active == True)
OwnActiveTool(t, tool_id, email) ==
    /\ t.tool_id = tool_id
    /\ t.tool_created_by_email = email
    /\ t.tool_is_active

get_tool_details(token, tool_id) ==
    /\ IsIdle
    /\ LET user == get_current_user(token)
       IN  IF user = NoDoc
           THEN Unauthorized("get_tool_details", token)
           ELSE LET hit == FindOne(SelectSeq(tools, LAMBDA t : OwnActiveTool(t, tool_id, user.user_email)))
                IN  IF hit = NoDoc
                    THEN Reply("get_tool_details", 404, token, user.user_email, NoData)
                    ELSE Reply("get_tool_details", 200, token, user.user_email, hit)

\* Assistant.find(assistant_created_by_email == ..., Assistant.tool_ids == tool_id)
SweepMatch(a, tool_id, email) ==
    a.assistant_created_by_email = email /\ tool_id \in Range(a.tool_ids)

\* Faulty variant: the sweep empties the list.
WithoutTool_Clear(tool_ids, tool_id) == <<>>

\* [tid for tid in assistant.tool_ids if tid != tool_id]
WithoutTool(tool_ids, tool_id) ==
    SelectSeq(tool_ids, LAMBDA tid : tid # tool_id)

delete_tool(token, tool_id) ==
    /\ IsIdle
    /\ LET user == get_current_user(token)
       IN  IF user = NoDoc
           THEN Unauthorized("delete_tool", token)
           ELSE LET hit == FindOne(SelectSeq(tools, LAMBDA t : OwnActiveTool(t, tool_id, user.user_email)))
                IN  IF hit = NoDoc
                    THEN Reply("delete_tool", 404, token, user.user_email, NoData)
                    ELSE /\ tools' = [tools EXCEPT ![IndexOf(tools, "tool_id", tool_id)] =
                                   [@ EXCEPT !.tool_is_active = FALSE,
                                             !.tool_updated_at = now,
                                             !.tool_updated_by_email = user.user_email]]
                         /\ assistants' =
                               [i \in DOMAIN assistants |->
                                   IF SweepMatch(assistants[i], tool_id, user.user_email)
                                   THEN [assistants[i] EXCEPT
                                           !.tool_ids = WithoutTool(@, tool_id)]
                                   ELSE assistants[i]]
                         /\ Respond("delete_tool", 200, token, user.user_email,
                                    [tool_id |-> tool_id,
                                     removed_from |-> Len(SelectSeq(assistants,
                                        LAMBDA a : SweepMatch(a, tool_id, user.user_email)))])
                         /\ UNCHANGED <<api_keys, trunks, now>>

\* valid_tool_ids = {t.tool_id for t in valid_tools}
valid_tool_ids(email) ==
    {t.tool_id : t \in {u \in Range(tools) : ListToolsMatch(u, email)}}

\* Faulty variant: only the first supplied id is verified.
invalid_ids_FirstOnly(request_tool_ids, email) ==
    SelectSeq(SubSeq(request_tool_ids, 1, 1), LAMBDA tid : tid \notin valid_tool_ids(email))

\* invalid_ids = [tid for tid in request.tool_ids if tid not in valid_tool_ids]
invalid_ids(request_tool_ids, email) ==
    SelectSeq(request_tool_ids, LAMBDA tid : tid \notin valid_tool_ids(email))

\* existing = set(assistant.tool_ids)
\* new_ids = [tid for tid in request.tool_ids if tid not in existing]
\* assistant.tool_ids = assistant.tool_ids + new_ids
MergeToolIds(tool_ids, request_tool_ids) ==
    tool_ids \o SelectSeq(request_tool_ids, LAMBDA tid : tid \notin Range(tool_ids))

attach_tools(token, assistant_id, request_tool_ids) ==
    /\ IsIdle
    /\ LET user == get_current_user(token)
       IN  IF user = NoDoc
           THEN Unauthorized("attach_tools", token)
           ELSE IF request_tool_ids = <<>>
           THEN validation_exception_handler("attach_tools", token, user.user_email)
           ELSE LET hit == FindOne(SelectSeq(assistants,
                               LAMBDA a : OwnActiveAssistant(a, assistant_id, user.user_email)))
                IN  IF hit = NoDoc
                    THEN Reply("attach_tools", 404, token, user.user_email, NoData)
                    ELSE IF invalid_ids(request_tool_ids, user.user_email) # <<>>
                    THEN Reply("attach_tools", 404, token, user.user_email,
                               [invalid_ids |-> invalid_ids(request_tool_ids, user.user_email)])
                    ELSE /\ assistants' =
                               [assistants EXCEPT ![IndexOf(assistants, "assistant_id", assistant_id)] =
                                   [@ EXCEPT !.tool_ids = MergeToolIds(@, request_tool_ids),
                                             !.assistant_updated_at = now,
                                             !.assistant_updated_by_email = user.user_email]]
                         /\ Respond("attach_tools", 200, token, user.user_email,
                                    [assistant_id |-> assistant_id,
                                     tool_ids |-> MergeToolIds(hit.tool_ids, request_tool_ids),
                                     attached |-> Len(MergeToolIds(hit.tool_ids, request_tool_ids))
                                                    - Len(hit.tool_ids)])
                         /\ UNCHANGED <<api_keys, tools, trunks, now>>

\* Faulty variant: only the first supplied id is detached.
DetachToolIds_FirstOnly(tool_ids, request_tool_ids) ==
    SelectSeq(tool_ids, LAMBDA tid : tid # request_tool_ids[1])

\* detach_set = set(request.tool_ids)
\* [tid for tid in assistant.tool_ids if tid not in detach_set]
DetachToolIds(tool_ids, request_tool_ids) ==
    SelectSeq(tool_ids, LAMBDA tid : tid \notin Range(request_tool_ids))

detach_tools(token, assistant_id, request_tool_ids) ==
    /\ IsIdle
    /\ LET user == get_current_user(token)
       IN  IF user = NoDoc
           THEN Unauthorized("detach_tools", token)
           ELSE IF request_tool_ids = <<>>
           THEN validation_exception_handler("detach_tools", token, user.user_email)
           ELSE LET hit == FindOne(SelectSeq(assistants,
                               LAMBDA a : OwnActiveAssistant(a, assistant_id, user.user_email)))
                IN  IF hit = NoDoc
                    THEN Reply("detach_tools", 404, token, user.user_email, NoData)
                    ELSE /\ assistants' =
                               [assistants EXCEPT ![IndexOf(assistants, "assistant_id", assistant_id)] =
                                   [@ EXCEPT !.tool_ids = DetachToolIds(@, request_tool_ids),
                                             !.assistant_updated_at = now,
                                             !.assistant_updated_by_email = user.user_email]]
                         /\ Respond("detach_tools", 200, token, user.user_email,
                                    [assistant_id |-> assistant_id,
                                     tool_ids |-> DetachToolIds(hit.tool_ids, request_tool_ids),
                                     detached |-> Cardinality(Range(request_tool_ids))])
                         /\ UNCHANGED <<api_keys, tools, trunks, now>>

-----------------------------------------------------------------------------
(* /sip (api/routes/sip.py).                                                *)

\* HTTPException(status_code=..., detail=...); a detail is written as the
\* sequence of the pieces of its string.
HTTPException(status_code, detail) == [status_code |-> status_code, detail |-> detail]

\* str(e) of an HTTPException: "<status_code>: <detail>"
HTTPException_str(e) ==
    <<IF e.status_code = 400 THEN "400: " ELSE "500: ">> \o e.detail

\* The HTTPException raised for a trunk type other than twilio.
trunk_type_not_supported ==
    HTTPException(400, <<"Trunk type not supported. Currently present only from twilio">>)

\* The HTTPException the inner "except Exception" raises when the
\* platform's create_sip_outbound_trunk raised.
livekit_trunk_failed ==
    HTTPException(500, <<"Failed to create outbound trunk in livekit: ", "platform error">>)

\* The outer "except Exception as e" of create_outbound_trunk: it catches
\* the HTTPExceptions raised inside the try as well and raises a 500.
outer_except(e) ==
    HTTPException(500, <<"Failed to insert outbound trunk into database: ">>
                            \o HTTPException_str(e))

\* http_exception_handler: the status of the exception, its detail as the
\* message; sent says which requests went to the platform before.
http_exception_handler(op, token, caller, exc, sent) ==
    Reply(op, exc.status_code, token, caller, [message |-> exc.detail, requests |-> sent])

\* platform_ok: whether LiveKit's create_sip_outbound_trunk returned a trunk.
create_outbound_trunk(token, trunk_type, platform_ok) ==
    LET user == get_current_user(token)
        id == Len(trunks) + 1
    IN  /\ IsIdle
        /\ Len(trunks) < MaxTrunks
        /\ IF user = NoDoc
           THEN Unauthorized("create_outbound_trunk", token)
           ELSE IF trunk_type # "twilio"
           THEN http_exception_handler("create_outbound_trunk", token, user.user_email,
                                       outer_except(trunk_type_not_supported), <<>>)
           ELSE IF ~platform_ok
           THEN http_exception_handler("create_outbound_trunk", token, user.user_email,
                                       outer_except(livekit_trunk_failed),
                                       <<"create_sip_outbound_trunk">>)
           ELSE /\ trunks' = Append(trunks,
                        [trunk_id |-> id,
                         trunk_name |-> "trunk",
                         trunk_created_by_email |-> user.user_email,
                         trunk_updated_by_email |-> user.user_email,
                         trunk_is_active |-> TRUE])
                /\ Respond("create_outbound_trunk", 200, token, user.user_email, [trunk_id |-> id])
                /\ UNCHANGED <<api_keys, assistants, tools, now>>

\* OutboundSIP.find(trunk_created_by_email == ..., trunk_is_active == True)
ListTrunksMatch(t, email) ==
    t.trunk_created_by_email = email /\ t.trunk_is_active

TrunkListItem(t) ==
    [trunk_id |-> t.trunk_id,
     trunk_name |-> t.trunk_name,
     trunk_created_by_email |-> t.trunk_created_by_email]

list_sip_trunks(token) ==
    /\ IsIdle
    /\ LET user == get_current_user(token)
       IN  IF user = NoDoc
           THEN Unauthorized("list_sip_trunks", token)
           ELSE LET found == SelectSeq(trunks, LAMBDA t : ListTrunksMatch(t, user.user_email))
                IN  Reply("list_sip_trunks", 200, token, user.user_email,
                          [items |-> [i \in DOMAIN found |-> TrunkListItem(found[i])]])

-----------------------------------------------------------------------------
(* /call (api/routes/call.py).                                              *)

\* What the platform does with the three requests of one call: all succeed,
\* or the first, the second or the third raises.
PlatformOutcomes == {"ok", "room_fails", "dispatch_fails", "participant_fails"}

\* The requests the handler sends to the platform, in the order of its
\* awaits: create_room, create_agent_dispatch, create_sip_participant.
PlatformSteps == <<"create_room", "create_agent_dispatch", "create_sip_participant">>

\* The step whose request raises, 0 when none does.
FailsAt(outcome) ==
    CASE outcome = "room_fails" -> 1
      [] outcome = "dispatch_fails" -> 2
      [] outcome = "participant_fails" -> 3
      [] OTHER -> 0

\* str(exc) of the exception the failing request raises.
PlatformError(outcome) == <<"platform error", outcome>>

\* The requests sent before the handler returns or an exception leaves it:
\* every await follows the previous one, nothing catches, nothing retries.
RequestsSent_KeepGoing(outcome) == PlatformSteps

RequestsSent(outcome) ==
    IF FailsAt(outcome) = 0 THEN PlatformSteps
    ELSE SubSeq(PlatformSteps, 1, FailsAt(outcome))

\* The resources the platform holds afterwards: one per request that did
\* not raise; the handler sends no request that deletes one.
ResourcesCreated(outcome) ==
    IF FailsAt(outcome) = 0 THEN PlatformSteps
    ELSE SubSeq(PlatformSteps, 1, FailsAt(outcome) - 1)

\* What a request to /call/outbound has done on the platform, next to the
\* fields of its body and the message of the response envelope.
CallData(assistant_id, trunk_id, call_service, requests, created, message) ==
    [assistant_id |-> assistant_id, trunk_id |-> trunk_id,
     call_service |-> call_service,
     requests |-> requests, created |-> created, message |-> message]

\* generic_exception_handler: message=f"Internal Server Error: {error_msg}".
generic_exception_message(error_msg) == <<"Internal Server Error: ", error_msg>>

\* Assistant.find_one(assistant_id == ..., assistant_created_by_email == ...)
CallAssistantMatch_AnyOwner(a, assistant_id, email) ==
    a.assistant_id = assistant_id

CallAssistantMatch(a, assistant_id, email) ==
    a.assistant_id = assistant_id /\ a.assistant_created_by_email = email

\* The handler writes no document.  call_service is checked first, then the
\* assistant is looked up, then the platform requests are sent.  An
\* exception of the platform reaches the generic handler: 500.
trigger_outbound_call(token, assistant_id, trunk_id, call_service, outcome) ==
    /\ IsIdle
    /\ LET user == get_current_user(token)
       IN  IF user = NoDoc
           THEN Unauthorized("trigger_outbound_call", token)
           ELSE IF call_service # "twilio"
           THEN Reply("trigger_outbound_call", 400, token, user.user_email,
                      CallData(assistant_id, trunk_id, call_service, <<>>, <<>>,
                               <<"Call service not supported, currently only twilio is supported">>))
           ELSE LET hit == FindOne(SelectSeq(assistants,
                               LAMBDA a : CallAssistantMatch(a, assistant_id, user.user_email)))
                IN  IF hit = NoDoc
                    THEN Reply("trigger_outbound_call", 404, token, user.user_email,
                               CallData(assistant_id, trunk_id, call_service, <<>>, <<>>,
                                        <<"Assistant not found in DB">>))
                    ELSE Reply("trigger_outbound_call",
                               IF FailsAt(outcome) = 0 THEN 200 ELSE 500,
                               token, user.user_email,
                               CallData(assistant_id, trunk_id, call_service,
                                        RequestsSent(outcome), ResourcesCreated(outcome),
                                        IF FailsAt(outcome) = 0
                                        THEN <<"Outbound call triggered successfully">>
                                        ELSE generic_exception_message(PlatformError(outcome))))

-----------------------------------------------------------------------------
(* The tool builder (core/agents/tool_builder.py).                          *)

\* The tool documents a build may find.
MaxBuilderTools == 2

\* A JSON object (a Python dict) is a function from keys to values; null,
\* and a dict where the code unpacks or calls it, are tagged records.
JsonNull == [null |-> TRUE]
Headers(items) == [dict |-> items]
IsMapping(v) == "dict" \in DOMAIN v

\* dict.get(key) and dict.get(key, default)
Get(d, key, default) == IF key \in DOMAIN d THEN d[key] ELSE default

\* Values of tool_execution_config, a dict the schemas leave unconstrained:
\* with and without url, headers (a dict or null), timeout and value.
ToolConfigs ==
    {[description |-> "neither url nor value"],
     [url |-> "https://hook"],
     [url |-> ""],
     [url |-> "https://hook", timeout |-> 5],
     [url |-> "https://hook", headers |-> Headers({<<"Authorization", "Bearer t">>})],
     [url |-> "https://hook", headers |-> JsonNull],
     [value |-> "sunny"],
     [value |-> None]}

\* A document of the collection "tools" with its execution config.
ToolDocument(id, execution_type, config, is_active) ==
    [tool_id |-> id,
     tool_name |-> "lookup_weather",
     tool_execution_type |-> execution_type,
     tool_execution_config |-> config,
     tool_created_by_email |-> "a@x.io",
     tool_updated_by_email |-> "a@x.io",
     tool_created_at |-> 0,
     tool_updated_at |-> 0,
     tool_is_active |-> is_active]

\* An exception that leaves a function.
Raised(exception) == [raised |-> exception]
IsRaised(v) == "raised" \in DOMAIN v

\* schema = {"type": "function", "name": ..., "parameters": {...,
\* "additionalProperties": False}}
\* (the parameter list of the document is not modelled)
build_raw_schema(tool_doc) ==
    [type |-> "function", name |-> tool_doc.tool_name, additionalProperties |-> FALSE]

\* The closure webhook_handler with the values it captures, or the
\* ValueError raised for a config without url.
create_webhook_executor(tool_name, config) ==
    LET url == Get(config, "url", None)
    IN  IF ~Truthy(url)
        THEN Raised("ValueError")
        ELSE [handler |-> "webhook_handler", tool_name |-> tool_name, url |-> url,
              custom_headers |-> Get(config, "headers", Headers({})),
              timeout |-> Get(config, "timeout", 30)]

\* The closure static_handler, or the ValueError for a config whose value
\* is missing or None.
create_static_return_executor(tool_name, config) ==
    LET static_value == Get(config, "value", None)
    IN  IF static_value = None
        THEN Raised("ValueError")
        ELSE [handler |-> "static_handler", tool_name |-> tool_name,
              static_value |-> static_value]

\* Faulty variant: an executor is handed out whatever the config holds.
create_executor_Unchecked(tool_doc) ==
    [handler |-> "webhook_handler", tool_name |-> tool_doc.tool_name,
     url |-> Get(tool_doc.tool_execution_config, "url", None),
     custom_headers |-> Headers({}), timeout |-> 30]

create_executor(tool_doc) ==
    IF tool_doc.tool_execution_type = "webhook"
    THEN create_webhook_executor(tool_doc.tool_name, tool_doc.tool_execution_config)
    ELSE IF tool_doc.tool_execution_type = "static_return"
    THEN create_static_return_executor(tool_doc.tool_name, tool_doc.tool_execution_config)
    ELSE Raised("ValueError")

\* function_tool(executor, raw_schema=raw_schema), or the exception of the
\* executor's construction.
build_single_tool(tool_doc) ==
    LET raw_schema == build_raw_schema(tool_doc)
        executor == create_executor(tool_doc)
    IN  IF IsRaised(executor) THEN executor
        ELSE [tool_id |-> tool_doc.tool_id, raw_schema |-> raw_schema, executor |-> executor]

\* Tool.find({"tool_id": {"$in": tool_ids}, "tool_is_active": True})
BuildToolsMatch(t, tool_ids) ==
    t.tool_id \in Range(tool_ids) /\ t.tool_is_active

\* for tool_doc in tools: try: built_tools.append(_build_single_tool(...))
\* except Exception: logger.error(...)
BuiltTools(docs) ==
    LET attempts == [i \in DOMAIN docs |-> build_single_tool(docs[i])]
    IN  SelectSeq(attempts, LAMBDA ft : ~IsRaised(ft))

\* One call of build_tools_from_db; built keeps the ids it was called with
\* next to the list it returned.
build_tools_from_db(tool_ids) ==
    /\ built' = [tool_ids |-> tool_ids,
                 returned |-> IF tool_ids = <<>> THEN <<>>
                              ELSE BuiltTools(SelectSeq(tools,
                                        LAMBDA t : BuildToolsMatch(t, tool_ids)))]
    /\ invocation' = NotRun
    /\ UNCHANGED <<api_keys, assistants, tools, trunks, now, resp>>
    /\ UNCHANGED session

\* What the one client.post of an invocation meets: a response with a
\* status and a body that parses as JSON or not, a timeout, or another
\* failure of the transport.
HttpStatuses == {200, 404, 500}
PostOutcomes ==
    [kind : {"response"}, status_code : HttpStatuses, json : BOOLEAN]
        \cup {[kind |-> "TimeoutException"], [kind |-> "ConnectError"]}

\* {"Content-Type": "application/json", **custom_headers}
MergeHeaders(custom_headers) ==
    Headers({h \in {<<"Content-Type", "application/json">>} :
                \A c \in custom_headers.dict : c[1] # h[1]} \cup custom_headers.dict)

\* await webhook_handler(raw_arguments, context): the POST requests sent
\* and the value returned, or the exception raised to the caller.  The
\* headers are merged before the try block; the POST, raise_for_status and
\* the parsing of the body are inside it.
webhook_handler(executor, raw_arguments, outcome) ==
    IF ~IsMapping(executor.custom_headers)
    THEN [posts |-> <<>>, result |-> Raised("TypeError")]
    ELSE [posts |-> <<[url |-> executor.url, json |-> raw_arguments,
                       headers |-> MergeHeaders(executor.custom_headers)]>>,
          result |->
            IF outcome.kind = "TimeoutException"
            THEN [error |-> <<"Webhook timed out after ", executor.timeout, "s">>]
            ELSE IF outcome.kind # "response"
            THEN [error |-> <<"Webhook call failed: ", outcome.kind>>]
            ELSE IF outcome.status_code \notin 200..299
            THEN [error |-> <<"Webhook returned status ", outcome.status_code>>]
            ELSE IF outcome.json THEN [json |-> "response.json()"]
            ELSE [text |-> "response.text"]]

\* await static_handler(raw_arguments, context)
static_handler(executor, raw_arguments) ==
    [posts |-> <<>>, result |-> [value |-> executor.static_value]]

\* The speech pipeline calls the executor of the i-th tool it was given.
InvokeTool(i, outcome) ==
    /\ built # NotRun
    /\ i \in DOMAIN built.returned
    /\ LET executor == built.returned[i].executor
           raw_arguments == "args"
           done == IF executor.handler = "webhook_handler"
                   THEN webhook_handler(executor, raw_arguments, outcome)
                   ELSE static_handler(executor, raw_arguments)
       IN  invocation' = [tool_id |-> built.returned[i].tool_id, executor |-> executor,
                          outcome |-> outcome,
                          posts |-> done.posts, result |-> done.result]
    /\ UNCHANGED <<api_keys, assistants, tools, trunks, now, resp, built>>
    /\ UNCHANGED session

-----------------------------------------------------------------------------
(* Call records (services/livekit/livekit_svc.py).  A coroutine runs from   *)
(* one await to the next without interruption; each step below is the code  *)
(* between two awaits, the database operation of the first included.        *)

\* Conversation items and end_call invocations of one call.
MaxItems == 2
MaxEndCalls == 2

\* Room names are strings over the characters 1, 2, 7 and the underscore,
\* written as sequences with 0 for "_".  str(k) of an assistant id is <<k>>.
Underscore == 0
IdString(k) == <<k>>

\* f(**kwargs) of a function whose parameters have no default: the call
\* binds when the keywords are exactly the parameters, and raises TypeError
\* before the body runs (for a coroutine function: before a coroutine
\* exists) otherwise.
Binds(kwargs, params) == kwargs = params

\* The parameters of the methods of LiveKitService, self apart.
add_transcript_params ==
    {"room_name", "speaker", "text", "assistant_id", "assistant_name", "to_number"}
end_call_params == {"room_name", "assistant_id"}
start_room_recording_params == {"room_name"}

\* None in a field that holds a datetime or a number of minutes.
NoTime == -1

\* CallRecord.find_one(CallRecord.room_name == room_name)
CallRecordMatch(r, room_name) == r.room_name = room_name

\* {"speaker": speaker, "text": text, "timestamp": datetime.utcnow()}
TranscriptEntry(speaker, text) == [speaker |-> speaker, text |-> text, timestamp |-> now]

\* CallRecord(room_name=..., transcripts=[entry], started_at=utcnow()); the
\* other fields take their defaults.
NewCallRecord(room_name, assistant_id, assistant_name, to_number, entry) ==
    [room_name |-> room_name, assistant_id |-> assistant_id,
     assistant_name |-> assistant_name, to_number |-> to_number,
     recording_path |-> None, transcripts |-> <<entry>>,
     started_at |-> now, ended_at |-> NoTime, call_duration_minutes |-> NoTime]

\* The clock counts minutes: (ended_at - started_at).total_seconds() / 60.
DurationMinutes(started_at, ended_at) == ((ended_at - started_at) * 60) \div 60

\* Faulty variant: the save appends the last entry of the document in
\* memory to the transcripts that are stored.
Saved_Merge(coll, doc) ==
    [i \in DOMAIN coll |->
        IF coll[i].room_name = doc.room_name
        THEN [doc EXCEPT !.transcripts =
                Append(coll[i].transcripts, doc.transcripts[Len(doc.transcripts)])]
        ELSE coll[i]]

\* call_record.save(): the document of the same room_name is replaced by
\* the one in memory.
Saved(coll, doc) ==
    [i \in DOMAIN coll |-> IF coll[i].room_name = doc.room_name THEN doc ELSE coll[i]]

\* asyncio.create_task(coro): the coroutine is scheduled, nobody awaits it.
create_task(coro) == Append(tasks, coro)

Without(s, i) == [k \in 1..(Len(s) - 1) |-> IF k < i THEN s[k] ELSE s[k + 1]]

\* The coroutine add_transcript(...) before its first step.
add_transcript(room_name, speaker, text, assistant_id, assistant_name, to_number) ==
    [fn |-> "add_transcript", pc |-> "find_one", room_name |-> room_name,
     assistant_id |-> assistant_id, assistant_name |-> assistant_name,
     to_number |-> to_number, entry |-> [speaker |-> speaker, text |-> text],
     call_record |-> NoDoc]

\* The coroutine end_call(room_name, assistant_id) before its first step.
end_call(room_name, assistant_id) ==
    [fn |-> "end_call", pc |-> "find_one", room_name |-> room_name,
     assistant_id |-> assistant_id, call_record |-> NoDoc]

\* One step of add_transcript: the lookup, after which the record in memory
\* has the entry appended (or is a new record with it), then the save or
\* the insert.  room_name is a unique index: an insert for a room that has
\* a record by then fails, and the exception ends the task.
add_transcript_step(i) ==
    LET t == tasks[i]
        hit == FindOne(SelectSeq(call_records, LAMBDA r : CallRecordMatch(r, t.room_name)))
        entry == TranscriptEntry(t.entry.speaker, t.entry.text)
    IN  CASE t.pc = "find_one" ->
                /\ tasks' = [tasks EXCEPT ![i] =
                        IF hit # NoDoc
                        THEN [t EXCEPT !.pc = "save", !.call_record =
                                [hit EXCEPT !.transcripts = Append(@, entry)]]
                        ELSE [t EXCEPT !.pc = "insert", !.call_record =
                                NewCallRecord(t.room_name, t.assistant_id, t.assistant_name,
                                              t.to_number, entry)]]
                /\ UNCHANGED <<call_records, posts, history>>
          [] t.pc = "save" ->
                /\ call_records' = Saved(call_records, t.call_record)
                /\ tasks' = Without(tasks, i)
                /\ history' = Append(history, "transcript_saved")
                /\ UNCHANGED posts
          [] t.pc = "insert" ->
                /\ call_records' = IF hit = NoDoc THEN Append(call_records, t.call_record)
                                   ELSE call_records
                /\ tasks' = Without(tasks, i)
                /\ history' = Append(history, IF hit = NoDoc THEN "transcript_saved"
                                              ELSE "DuplicateKeyError")
                /\ UNCHANGED posts

\* Assistant.find_one(assistant_id == ..., assistant_end_call_url != None,
\*                    assistant_end_call_url != "")
EndCallAssistantMatch(a, assistant_id) ==
    /\ IdString(a.assistant_id) = assistant_id
    /\ a.assistant_end_call_url # None
    /\ a.assistant_end_call_url # ""

\* Whether the POST to the end-call URL goes through.
Deliveries == {"delivered", "failed"}

\* One step of end_call: the lookup of the record, which is stamped in
\* memory when there is one; its save; the lookup of the assistant; the
\* POST of the record in memory, made when both lookups found something.  A
\* failed POST is logged.
end_call_step(i, delivery) ==
    LET t == tasks[i]
        hit == FindOne(SelectSeq(call_records, LAMBDA r : CallRecordMatch(r, t.room_name)))
        assistant == FindOne(SelectSeq(assistants,
                                LAMBDA a : EndCallAssistantMatch(a, t.assistant_id)))
    IN  CASE t.pc = "find_one" ->
                /\ tasks' = [tasks EXCEPT ![i] =
                        IF hit # NoDoc
                        THEN [t EXCEPT !.pc = "save", !.call_record =
                                [hit EXCEPT !.ended_at = now,
                                            !.call_duration_minutes =
                                                DurationMinutes(hit.started_at, now)]]
                        ELSE [t EXCEPT !.pc = "find_assistant"]]
                /\ UNCHANGED <<call_records, posts, history>>
          [] t.pc = "save" ->
                /\ call_records' = Saved(call_records, t.call_record)
                /\ tasks' = [tasks EXCEPT ![i].pc = "find_assistant"]
                /\ history' = Append(history, "call_finalized")
                /\ UNCHANGED posts
          [] t.pc = "find_assistant" ->
                IF assistant # NoDoc /\ t.call_record # NoDoc
                THEN /\ tasks' = [tasks EXCEPT ![i].pc = "post"]
                     /\ UNCHANGED <<call_records, posts, history>>
                ELSE /\ tasks' = Without(tasks, i)
                     /\ history' = Append(history, "end_call_returned")
                     /\ UNCHANGED <<call_records, posts>>
          [] t.pc = "post" ->
                /\ posts' = Append(posts, [url |-> assistant.assistant_end_call_url,
                                           data |-> t.call_record,
                                           delivery |-> delivery])
                /\ tasks' = Without(tasks, i)
                /\ history' = history \o <<"webhook_sent", "end_call_returned">>
                /\ UNCHANGED call_records

\* The event loop resumes one of the tasks.
RunTask(i, delivery) ==
    /\ i \in DOMAIN tasks
    /\ IF tasks[i].fn = "add_transcript"
       THEN delivery = "delivered" /\ add_transcript_step(i)
       ELSE (tasks[i].pc # "post" => delivery = "delivered") /\ end_call_step(i, delivery)
    /\ UNCHANGED <<api_keys, assistants, tools, trunks, now, resp, built, invocation, job, room>>

-----------------------------------------------------------------------------
(* The worker entrypoint (core/agents/session.py).  Each step of           *)
(* entrypoint is the code from one await to the next.                       *)

\* ctx.room.name of the jobs: "<id>_<suffix>" as create_room names a room,
\* an id of two characters, a name without underscore, an empty prefix.
RoomNames == {<<1, Underscore, 7>>, <<2, Underscore, 7>>, <<1, 2, Underscore, 7>>,
              <<1>>, <<Underscore, 1>>}

\* ctx.job.metadata: empty, the JSON create_agent_dispatch was given, or a
\* string that is not JSON.
JobMetadata == {"", "{\"to_number\": \"+15550100\"}", "{"}

\* json.loads(text)
json_loads(text) ==
    IF text = "{\"to_number\": \"+15550100\"}" THEN [to_number |-> "+15550100"]
    ELSE Raised("JSONDecodeError")

\* Faulty variant: the first character of the name.
split_first_OneChar(room_name) == SubSeq(room_name, 1, 1)

\* room_name.split("_", 1)[0]
split_first(room_name) ==
    IF \E i \in DOMAIN room_name : room_name[i] = Underscore
    THEN LET first == CHOOSE i \in DOMAIN room_name :
                        /\ room_name[i] = Underscore
                        /\ \A j \in 1..(i - 1) : room_name[j] # Underscore
         IN  SubSeq(room_name, 1, first - 1)
    ELSE room_name

\* Assistant.find_one(Assistant.assistant_id == assistant_id)
EntrypointAssistantMatch(a, assistant_id) == IdString(a.assistant_id) = assistant_id

\* A document of the collection "assistants" as the worker reads it.
AssistantDocument(id, start_instruction, end_call_url) ==
    [assistant_id |-> id,
     assistant_name |-> "asst",
     assistant_tts_model |-> "cartesia",
     assistant_tts_voice_id |-> "voice-1",
     assistant_tts_speaker |-> None,
     assistant_start_instruction |-> start_instruction,
     assistant_end_call_url |-> end_call_url,
     assistant_created_at |-> 0,
     assistant_updated_at |-> 0,
     assistant_created_by_email |-> "a@x.io",
     assistant_updated_by_email |-> "a@x.io",
     assistant_is_active |-> TRUE,
     tool_ids |-> <<>>]

\* DynamicAssistant.__init__(room, start_instruction, instructions,
\* tools=None): the tools the Agent is constructed with, tools or [].
DynamicAssistant_tools(tools_arg) == IF tools_arg = None THEN <<>> ELSE tools_arg

\* The tools argument of the DynamicAssistant(...) call in entrypoint: the
\* call passes room, instructions and start_instruction, so tools takes its
\* default.
entrypoint_tools_argument == None

\* entrypoint(ctx) has been called and stands before its first await.
NewJob(room_name, metadata) ==
    [pc |-> "connect_db", room_name |-> room_name, metadata |-> metadata,
     assistant_id |-> <<>>, assistant |-> NoDoc, to_number |-> "Unknown",
     s3_url |-> None, start_instruction |-> None, agent_tools |-> <<>>,
     on_conversation_item |-> FALSE, on_participant_disconnected |-> FALSE]

\* The callers of a conversation item, and its text_content.
Roles == {"user", "assistant"}
Texts == {"", "hello"}
Participants == {"callee", "guest"}

\* await Database.connect_db(): a failure is logged and the job returns.
entrypoint_connect_db(db_ok) ==
    /\ job.pc = "connect_db"
    /\ job' = [job EXCEPT !.pc = IF db_ok THEN "find_one" ELSE "returned"]
    /\ history' = IF db_ok THEN history ELSE Append(history, "connect_failed")
    /\ UNCHANGED <<api_keys, assistants, tools, trunks, now, resp, built, invocation>>
    /\ UNCHANGED <<call_records, room, tasks, posts>>

\* What the try block around start_room_recording logs.  The call passes
\* assistant_id, which is no parameter of the method; a call that bound
\* would return an egress id (a str, on which .get raises) or None.
RecordingLog(egress) ==
    IF ~Binds({"room_name", "assistant_id"}, start_room_recording_params)
    THEN "recording_failed: TypeError"
    ELSE IF egress = None THEN "recording_failed: returned failure or empty"
    ELSE "recording_failed: AttributeError"

\* What the try block around json.loads and render_prompt logs, and the
\* to_number it leaves.
MetadataLog(metadata) ==
    IF metadata = "" THEN "metadata_empty"
    ELSE IF IsRaised(json_loads(metadata)) THEN "metadata_failed"
    ELSE "metadata_parsed"
ToNumber(metadata) ==
    IF metadata = "" \/ IsRaised(json_loads(metadata)) THEN "Unknown"
    ELSE Get(json_loads(metadata), "to_number", "Unknown")

\* From the answer of Assistant.find_one to await session.start(...): no
\* assistant, and the job returns; otherwise the metadata is parsed, the
\* recording requested, the agent, the models and the session constructed
\* and on_conversation_item registered.
entrypoint_find_one(egress) ==
    /\ job.pc = "find_one"
    /\ LET assistant_id == split_first(job.room_name)
           assistant == FindOne(SelectSeq(assistants,
                            LAMBDA a : EntrypointAssistantMatch(a, assistant_id)))
       IN  IF assistant = NoDoc
           THEN /\ job' = [job EXCEPT !.pc = "returned", !.assistant_id = assistant_id]
                /\ history' = Append(history, "assistant_not_found")
           ELSE /\ job' = [job EXCEPT !.pc = "session.start",
                                      !.assistant_id = assistant_id,
                                      !.assistant = assistant,
                                      !.to_number = ToNumber(job.metadata),
                                      !.s3_url = None,
                                      !.start_instruction =
                                            IF Truthy(assistant.assistant_start_instruction)
                                            THEN assistant.assistant_start_instruction
                                            ELSE "Greet the user Professionally",
                                      !.agent_tools =
                                            DynamicAssistant_tools(entrypoint_tools_argument),
                                      !.on_conversation_item = TRUE]
                /\ history' = history \o <<"assistant_loaded", MetadataLog(job.metadata),
                                           "recording_requested", RecordingLog(egress),
                                           "pipeline_constructed">>
    /\ UNCHANGED <<api_keys, assistants, tools, trunks, now, resp, built, invocation>>
    /\ UNCHANGED <<call_records, room, tasks, posts>>

\* await session.start(...) returns, or raises and ends the job; then
\* await ctx.wait_for_participant().
entrypoint_session_start(started) ==
    /\ job.pc = "session.start"
    /\ job' = [job EXCEPT !.pc = IF started THEN "wait_for_participant" ELSE "raised"]
    /\ history' = IF started THEN history \o <<"session_started", "participant_awaited">>
                  ELSE Append(history, "session_failed")
    /\ UNCHANGED <<api_keys, assistants, tools, trunks, now, resp, built, invocation>>
    /\ UNCHANGED <<call_records, room, tasks, posts>>

\* Faulty variant: the greeting does not wait for a participant.
entrypoint_wait_for_participant_NoWait ==
    /\ job.pc = "wait_for_participant"
    /\ job' = [job EXCEPT !.pc = "generate_reply"]
    /\ history' = history \o <<"participant_joined", "greeting_issued">>
    /\ UNCHANGED <<api_keys, assistants, tools, trunks, now, resp, built, invocation>>
    /\ UNCHANGED <<call_records, room, tasks, posts>>

\* Faulty variant: the wait gives up and the job returns.
entrypoint_wait_for_participant_Timeout ==
    /\ job.pc = "wait_for_participant"
    /\ job' = [job EXCEPT !.pc = "returned"]
    /\ history' = Append(history, "wait_timed_out")
    /\ UNCHANGED <<api_keys, assistants, tools, trunks, now, resp, built, invocation>>
    /\ UNCHANGED <<call_records, room, tasks, posts>>

\* wait_for_participant returns a participant that is in the room; the
\* background audio is started and generate_reply called with the start
\* instruction, which is never empty.
entrypoint_wait_for_participant ==
    /\ job.pc = "wait_for_participant"
    /\ room.participants # {}
    /\ job' = [job EXCEPT !.pc = "generate_reply"]
    /\ history' = history \o <<"participant_joined", "greeting_issued">>
    /\ UNCHANGED <<api_keys, assistants, tools, trunks, now, resp, built, invocation>>
    /\ UNCHANGED <<call_records, room, tasks, posts>>

\* await session.generate_reply(...) returns or raises, which is logged;
\* on_participant_disconnected is registered and entrypoint returns.
entrypoint_generate_reply(replied) ==
    /\ job.pc = "generate_reply"
    /\ job' = [job EXCEPT !.pc = "returned", !.on_participant_disconnected = TRUE]
    /\ history' = history \o <<IF replied THEN "greeting_done" ELSE "greeting_failed",
                               "disconnect_handler_registered">>
    /\ UNCHANGED <<api_keys, assistants, tools, trunks, now, resp, built, invocation>>
    /\ UNCHANGED <<call_records, room, tasks, posts>>

\* A participant joins the room of the job.
ParticipantJoins(p) ==
    /\ job.pc # "none"
    /\ p \notin room.participants \cup room.left
    /\ room' = [room EXCEPT !.participants = @ \cup {p}]
    /\ UNCHANGED <<api_keys, assistants, tools, trunks, now, resp, built, invocation>>
    /\ UNCHANGED <<call_records, job, tasks, posts, history>>

\* A participant leaves: "participant_disconnected" is emitted to the
\* handlers registered by then, that is to on_participant_disconnected,
\* which starts end_call as a task.
ParticipantDisconnects(p) ==
    /\ p \in room.participants
    /\ room' = [room EXCEPT !.participants = @ \ {p}, !.left = @ \cup {p}]
    /\ IF job.on_participant_disconnected
            /\ Binds({"room_name", "assistant_id"}, end_call_params)
       THEN /\ tasks' = create_task(end_call(job.room_name, job.assistant_id))
            /\ history' = history \o <<"participant_disconnected", "end_call_started">>
       ELSE /\ tasks' = tasks
            /\ history' = Append(history, "participant_disconnected")
    /\ UNCHANGED <<api_keys, assistants, tools, trunks, now, resp, built, invocation>>
    /\ UNCHANGED <<call_records, job, posts>>

\* The keywords on_conversation_item passes to add_transcript.
on_conversation_item_kwargs ==
    {"room_name", "speaker", "text", "assistant_id", "assistant_name", "to_number",
     "recording_path"}

\* "conversation_item_added" is emitted by the started session:
\* on_conversation_item calls add_transcript for an item with text and
\* hands the coroutine to create_task; a call that does not bind raises in
\* the handler and starts nothing.
on_conversation_item(role, text) ==
    /\ job.on_conversation_item
    /\ job.pc \in {"wait_for_participant", "generate_reply", "returned"}
    /\ room.events < MaxItems
    /\ room' = [room EXCEPT !.events = @ + 1,
                            !.items = IF Truthy(text) THEN @ + 1 ELSE @]
    /\ tasks' = IF Truthy(text) /\ Binds(on_conversation_item_kwargs, add_transcript_params)
                THEN create_task(add_transcript(job.room_name, role, text, job.assistant_id,
                                                job.assistant.assistant_name, job.to_number))
                ELSE tasks
    /\ UNCHANGED <<api_keys, assistants, tools, trunks, now, resp, built, invocation>>
    /\ UNCHANGED <<call_records, job, posts, history>>

\* LiveKitService.add_transcript and LiveKitService.end_call called with
\* the arguments of their signatures, for the room "1_7".
ServiceRoom == <<1, Underscore, 7>>

AddTranscriptCalled(role, text) ==
    /\ room.events < MaxItems
    /\ room' = [room EXCEPT !.events = @ + 1, !.items = @ + 1]
    /\ tasks' = create_task(add_transcript(ServiceRoom, role, text, split_first(ServiceRoom),
                                           "asst", "+15550100"))
    /\ UNCHANGED <<api_keys, assistants, tools, trunks, now, resp, built, invocation>>
    /\ UNCHANGED <<call_records, job, posts, history>>

EndCallCalled ==
    /\ room.end_calls < MaxEndCalls
    /\ room' = [room EXCEPT !.end_calls = @ + 1]
    /\ tasks' = create_task(end_call(ServiceRoom, split_first(ServiceRoom)))
    /\ history' = Append(history, "end_call_started")
    /\ UNCHANGED <<api_keys, assistants, tools, trunks, now, resp, built, invocation>>
    /\ UNCHANGED <<call_records, job, posts>>

-----------------------------------------------------------------------------
(* Requests in flight.  The server runs each route handler as a coroutine  *)
(* of one event loop: a handler runs from one await to the next, and the   *)
(* handlers of other requests run in between.  tasks holds the handlers    *)
(* that have been entered and have not answered.                            *)

\* Handlers in flight at a time.
MaxInFlight == 2

\* Values of "lvk_" + secrets.token_urlsafe(32).
KeyValues == 1..2

\* A request reaches its route handler, which stands before its first await.
RequestReceived(coro) ==
    /\ Len(tasks) < MaxInFlight
    /\ tasks' = Append(tasks, coro)
    /\ UNCHANGED <<api_keys, assistants, tools, trunks, now, resp>>
    /\ UNCHANGED <<built, invocation, call_records, job, room, posts, history>>

\* The handler in flight answers and is done.
Answer(i, op, status, token, caller, data) ==
    /\ IsIdle
    /\ resp' = Response(op, status, token, caller, data)
    /\ tasks' = Without(tasks, i)

\* The coroutine create_api_key(request) before its first step.
create_api_key_coro(email) ==
    [fn |-> "create_api_key", pc |-> "find_one", user_email |-> email, api_key |-> NoToken]

\* Faulty variant: the collection has no unique index.
APIKey_DuplicateKey_NoIndex(doc) == FALSE

\* api_key: Indexed(str, unique=True), user_email: Indexed(EmailStr,
\* unique=True): the insert of doc raises DuplicateKeyError.
APIKey_DuplicateKey(doc) ==
    \E k \in DOMAIN api_keys :
        api_keys[k].api_key = doc.api_key \/ api_keys[k].user_email = doc.user_email

\* One step of create_api_key: the lookup by e-mail, answered 400 when it
\* finds a record, after which the key is generated and the document
\* constructed; then the insert, whose exception is answered 500.
create_api_key_step(i, key) ==
    LET t == tasks[i]
        existing_user == FindOne(SelectSeq(api_keys, LAMBDA k : k.user_email = t.user_email))
        user == [api_key |-> t.api_key, user_email |-> t.user_email, is_active |-> TRUE]
    IN  /\ i \in DOMAIN tasks
        /\ t.fn = "create_api_key"
        /\ CASE t.pc = "find_one" ->
                    IF existing_user # NoDoc
                    THEN /\ Answer(i, "create_api_key", 400, NoToken, None, NoData)
                         /\ UNCHANGED api_keys
                    ELSE /\ tasks' = [tasks EXCEPT ![i].pc = "insert", ![i].api_key = key]
                         /\ UNCHANGED <<api_keys, resp>>
             [] t.pc = "insert" ->
                    IF APIKey_DuplicateKey(user)
                    THEN /\ Answer(i, "create_api_key", 500, NoToken, None,
                                   [message |-> "DuplicateKeyError",
                                    user_email |-> t.user_email])
                         /\ UNCHANGED api_keys
                    ELSE /\ api_keys' = Append(api_keys, user)
                         /\ Answer(i, "create_api_key", 200, NoToken, None,
                                   [api_key |-> t.api_key])
        /\ UNCHANGED <<assistants, tools, trunks, now>>
        /\ UNCHANGED <<built, invocation, call_records, job, room, posts, history>>

\* document.save(): the stored document of the same id is replaced by the
\* one in memory, every field of it.
SavedDoc(coll, idField, doc) ==
    [k \in DOMAIN coll |-> IF coll[k][idField] = doc[idField] THEN doc ELSE coll[k]]

\* The coroutines of the tool routes before their first step; the
\* dependency get_current_user is resolved with the first lookup.
attach_tools_coro(token, assistant_id, request_tool_ids) ==
    [fn |-> "attach_tools", pc |-> "find_assistant", token |-> token,
     assistant_id |-> assistant_id, tool_ids |-> request_tool_ids,
     email |-> None, assistant |-> NoDoc]

detach_tools_coro(token, assistant_id, request_tool_ids) ==
    [fn |-> "detach_tools", pc |-> "find_assistant", token |-> token,
     assistant_id |-> assistant_id, tool_ids |-> request_tool_ids,
     email |-> None, assistant |-> NoDoc]

delete_tool_coro(token, tool_id) ==
    [fn |-> "delete_tool", pc |-> "find_tool", token |-> token, tool_id |-> tool_id,
     email |-> None, tool |-> NoDoc, assistants |-> <<>>]

\* One step of attach_tools: the lookup of the assistant; the lookup of the
\* caller's active tools, after which the assistant in memory has the new
\* ids merged in; the save of the assistant in memory.
attach_tools_step(i) ==
    LET t == tasks[i]
        user == get_current_user(t.token)
    IN  /\ i \in DOMAIN tasks
        /\ t.fn = "attach_tools"
        /\ CASE t.pc = "find_assistant" ->
                    /\ IF user = NoDoc
                       THEN Answer(i, "attach_tools", 401, t.token, None, NoData)
                       ELSE LET hit == FindOne(SelectSeq(assistants, LAMBDA a :
                                        OwnActiveAssistant(a, t.assistant_id, user.user_email)))
                            IN  IF hit = NoDoc
                                THEN Answer(i, "attach_tools", 404, t.token, user.user_email,
                                            NoData)
                                ELSE /\ tasks' = [tasks EXCEPT ![i].pc = "find_tools",
                                                               ![i].email = user.user_email,
                                                               ![i].assistant = hit]
                                     /\ UNCHANGED resp
                    /\ UNCHANGED assistants
             [] t.pc = "find_tools" ->
                    /\ IF invalid_ids(t.tool_ids, t.email) # <<>>
                       THEN Answer(i, "attach_tools", 404, t.token, t.email,
                                   [invalid_ids |-> invalid_ids(t.tool_ids, t.email)])
                       ELSE /\ tasks' = [tasks EXCEPT ![i].pc = "save", ![i].assistant =
                                    [t.assistant EXCEPT
                                        !.tool_ids = MergeToolIds(@, t.tool_ids),
                                        !.assistant_updated_at = now,
                                        !.assistant_updated_by_email = t.email]]
                            /\ UNCHANGED resp
                    /\ UNCHANGED assistants
             [] t.pc = "save" ->
                    /\ assistants' = SavedDoc(assistants, "assistant_id", t.assistant)
                    /\ Answer(i, "attach_tools", 200, t.token, t.email,
                              [assistant_id |-> t.assistant_id,
                               tool_ids |-> t.assistant.tool_ids])
        /\ UNCHANGED <<api_keys, tools, trunks, now>>
        /\ UNCHANGED <<built, invocation, call_records, job, room, posts, history>>

\* One step of detach_tools: the lookup of the assistant, whose copy in
\* memory loses the ids; its save.
detach_tools_step(i) ==
    LET t == tasks[i]
        user == get_current_user(t.token)
    IN  /\ i \in DOMAIN tasks
        /\ t.fn = "detach_tools"
        /\ CASE t.pc = "find_assistant" ->
                    /\ IF user = NoDoc
                       THEN Answer(i, "detach_tools", 401, t.token, None, NoData)
                       ELSE LET hit == FindOne(SelectSeq(assistants, LAMBDA a :
                                        OwnActiveAssistant(a, t.assistant_id, user.user_email)))
                            IN  IF hit = NoDoc
                                THEN Answer(i, "detach_tools", 404, t.token, user.user_email,
                                            NoData)
                                ELSE /\ tasks' = [tasks EXCEPT ![i].pc = "save",
                                            ![i].email = user.user_email,
                                            ![i].assistant =
                                                [hit EXCEPT
                                                    !.tool_ids = DetachToolIds(@, t.tool_ids),
                                                    !.assistant_updated_at = now,
                                                    !.assistant_updated_by_email =
                                                        user.user_email]]
                                     /\ UNCHANGED resp
                    /\ UNCHANGED assistants
             [] t.pc = "save" ->
                    /\ assistants' = SavedDoc(assistants, "assistant_id", t.assistant)
                    /\ Answer(i, "detach_tools", 200, t.token, t.email,
                              [assistant_id |-> t.assistant_id,
                               tool_ids |-> t.assistant.tool_ids])
        /\ UNCHANGED <<api_keys, tools, trunks, now>>
        /\ UNCHANGED <<built, invocation, call_records, job, room, posts, history>>

\* One step of delete_tool: the lookup of the tool, which is switched off
\* in memory; its save; the lookup of the caller's assistants that hold the
\* id, returned as a list; then one save for each assistant of the list,
\* with the id taken out of the copy in memory.
delete_tool_step(i) ==
    LET t == tasks[i]
        user == get_current_user(t.token)
    IN  /\ i \in DOMAIN tasks
        /\ t.fn = "delete_tool"
        /\ CASE t.pc = "find_tool" ->
                    /\ IF user = NoDoc
                       THEN Answer(i, "delete_tool", 401, t.token, None, NoData)
                       ELSE LET hit == FindOne(SelectSeq(tools, LAMBDA d :
                                        OwnActiveTool(d, t.tool_id, user.user_email)))
                            IN  IF hit = NoDoc
                                THEN Answer(i, "delete_tool", 404, t.token, user.user_email,
                                            NoData)
                                ELSE /\ tasks' = [tasks EXCEPT ![i].pc = "save_tool",
                                            ![i].email = user.user_email,
                                            ![i].tool =
                                                [hit EXCEPT
                                                    !.tool_is_active = FALSE,
                                                    !.tool_updated_at = now,
                                                    !.tool_updated_by_email = user.user_email]]
                                     /\ UNCHANGED resp
                    /\ UNCHANGED <<tools, assistants>>
             [] t.pc = "save_tool" ->
                    /\ tools' = SavedDoc(tools, "tool_id", t.tool)
                    /\ tasks' = [tasks EXCEPT ![i].pc = "find_assistants"]
                    /\ UNCHANGED <<assistants, resp>>
             [] t.pc = "find_assistants" ->
                    LET found == SelectSeq(assistants,
                                    LAMBDA a : SweepMatch(a, t.tool_id, t.email))
                    IN  /\ IF found = <<>>
                           THEN Answer(i, "delete_tool", 200, t.token, t.email,
                                       [tool_id |-> t.tool_id, removed_from |-> 0])
                           ELSE /\ tasks' = [tasks EXCEPT ![i].pc = "sweep",
                                                          ![i].assistants = found]
                                /\ UNCHANGED resp
                        /\ UNCHANGED <<tools, assistants>>
             [] t.pc = "sweep" ->
                    LET assistant == [Head(t.assistants) EXCEPT
                                        !.tool_ids = WithoutTool(@, t.tool_id)]
                    IN  /\ assistants' = SavedDoc(assistants, "assistant_id", assistant)
                        /\ IF Tail(t.assistants) = <<>>
                           THEN Answer(i, "delete_tool", 200, t.token, t.email,
                                       [tool_id |-> t.tool_id, removed_from |-> 1])
                           ELSE /\ tasks' = [tasks EXCEPT ![i].assistants = Tail(@)]
                                /\ UNCHANGED resp
                        /\ UNCHANGED tools
        /\ UNCHANGED <<api_keys, trunks, now>>
        /\ UNCHANGED <<built, invocation, call_records, job, room, posts, history>>

-----------------------------------------------------------------------------
(* The API as a whole.                                                      *)

\* The response goes out on the wire (return apiResponse(...) or the
\* JSONResponse of an exception handler); the server takes the next request.
SendResponse ==
    /\ ~IsIdle
    /\ resp' = Idle
    /\ UNCHANGED <<api_keys, assistants, tools, trunks, now>>
    /\ UNCHANGED agent

\* Representative bodies for the requests whose payload plays no part: one
\* valid and one invalid assistant, an empty and a one-field update.
BasicCreateAssistantBodies ==
    {b \in CreateAssistantBodies :
        b.assistant_tts_model = "cartesia" /\ b.assistant_tts_speaker = None}
BasicUpdateAssistantBodies ==
    {b \in UpdateAssistantBodies : Supplied(b) \subseteq {"assistant_name"}}
BasicCreateToolBodies ==
    {b \in CreateToolBodies : b.tool_execution_type = "webhook"}
BasicUpdateToolBodies ==
    {b \in UpdateToolBodies : Supplied(b) \subseteq {"tool_name"}}

\* The routes of routes/assistant.py, routes/tool.py and routes/sip.py,
\* called with one bearer token.
AssistantRoute(token) ==
    \/ \E body \in BasicCreateAssistantBodies : create_assistant(token, body)
    \/ \E id \in AssistantIds, body \in BasicUpdateAssistantBodies :
            update_assistant(token, id, body)
    \/ list_assistants(token)
    \/ \E id \in AssistantIds : get_assistant_details(token, id)

ToolRoute(token) ==
    \/ \E body \in BasicCreateToolBodies : create_tool(token, body)
    \/ \E id \in ToolIds, body \in BasicUpdateToolBodies : update_tool(token, id, body)
    \/ list_tools(token)
    \/ \E id \in ToolIds : get_tool_details(token, id)
    \/ \E id \in ToolIds : delete_tool(token, id)
    \/ \E id \in AssistantIds, ids \in ToolIdLists : attach_tools(token, id, ids)
    \/ \E id \in AssistantIds, ids \in ToolIdLists : detach_tools(token, id, ids)

TrunkRoute(token) ==
    \/ \E type \in TrunkTypes, ok \in BOOLEAN : create_outbound_trunk(token, type, ok)
    \/ list_sip_trunks(token)

CallRoute(token) ==
    \E id \in AssistantIds, trunk_id \in TrunkIds, service \in TrunkTypes,
       outcome \in PlatformOutcomes :
        trigger_outbound_call(token, id, trunk_id, service, outcome)

\* The routes behind Depends(get_current_user): every route of the routers
\* included by server.py but /health and /auth/create-key.
AuthenticatedRoute(token) ==
    \/ check_api_key(token)
    \/ AssistantRoute(token)
    \/ ToolRoute(token)
    \/ TrunkRoute(token)
    \/ CallRoute(token)

\* Every route, any caller, any path parameter.
Next ==
    \/ SendResponse
    \/ \E email \in Emails : create_api_key(email)
    \/ \E i \in 1..Cardinality(Emails) : DeactivateKey(i)
    \/ \E token \in Tokens : AuthenticatedRoute(token)

Spec == Init /\ [][Next]_vars

\* The assistants and the tools of callers whose keys stay active.
NextTools ==
    \/ SendResponse
    \/ \E email \in Emails : create_api_key(email)
    \/ \E token \in Tokens : AssistantRoute(token)
    \/ \E token \in Tokens : ToolRoute(token)

SpecTools == Init /\ [][NextTools]_vars

\* Requests to /auth/create-key whose handlers interleave.
NextKeys ==
    \/ SendResponse
    \/ \E email \in Emails : RequestReceived(create_api_key_coro(email))
    \/ \E i \in 1..MaxInFlight, key \in KeyValues : create_api_key_step(i, key)

SpecKeys == Init /\ [][NextKeys]_vars

\* The callers, their trunks, their assistants and their outbound calls.
NextTrunks ==
    \/ SendResponse
    \/ \E email \in Emails : create_api_key(email)
    \/ \E i \in 1..Cardinality(Emails) : DeactivateKey(i)
    \/ \E token \in Tokens : TrunkRoute(token)
    \/ \E token \in Tokens, body \in BasicCreateAssistantBodies : create_assistant(token, body)
    \/ \E token \in Tokens : CallRoute(token)

SpecTrunks == Init /\ [][NextTrunks]_vars

\* The callers, their assistants and their outbound calls.
NextCalls ==
    \/ SendResponse
    \/ \E email \in Emails : create_api_key(email)
    \/ \E token \in Tokens, body \in BasicCreateAssistantBodies : create_assistant(token, body)
    \/ \E token \in Tokens : CallRoute(token)

SpecCalls == Init /\ [][NextCalls]_vars

\* The tool builder over every collection of at most MaxBuilderTools tool
\* documents, active or not, of either execution type and any config.
BuilderCollections ==
    UNION { { docs \in [1..n -> [id : 1..n, type : ExecutionTypes,
                                 config : ToolConfigs, active : BOOLEAN]] :
                \A i \in 1..n : docs[i].id = i } : n \in 0..MaxBuilderTools }

InitBuilder ==
    /\ api_keys = <<>>
    /\ assistants = <<>>
    /\ trunks = <<>>
    /\ now = 0
    /\ resp = Idle
    /\ built = NotRun
    /\ invocation = NotRun
    /\ call_records = <<>>
    /\ job = NoJob
    /\ room = NoRoom
    /\ tasks = <<>>
    /\ posts = <<>>
    /\ history = <<>>
    /\ \E docs \in BuilderCollections :
            tools = [i \in DOMAIN docs |->
                        ToolDocument(i, docs[i].type, docs[i].config, docs[i].active)]

NextBuilder ==
    \/ \E tool_ids \in ToolIdLists : build_tools_from_db(tool_ids)
    \/ \E i \in 1..MaxBuilderTools, outcome \in PostOutcomes : InvokeTool(i, outcome)

SpecBuilder == InitBuilder /\ [][NextBuilder]_vars

\* The assistants a job may find: none, or assistant 1 with or without a
\* start instruction and an end-call URL.
StartInstructions == {None, "Say hello to {{name}}"}
EndCallUrls == {None, "", "https://crm/hook"}
WorkerAssistants ==
    {<<>>} \cup {<<AssistantDocument(1, i, u)>> : i \in StartInstructions, u \in EndCallUrls}

\* The worker is handed a job for a room.
InitWorker ==
    /\ api_keys = <<>>
    /\ assistants \in WorkerAssistants
    /\ tools = <<>>
    /\ trunks = <<>>
    /\ now = 0
    /\ resp = Idle
    /\ built = NotRun
    /\ invocation = NotRun
    /\ call_records = <<>>
    /\ job \in {NewJob(n, m) : n \in RoomNames, m \in JobMetadata}
    /\ room = NoRoom
    /\ tasks = <<>>
    /\ posts = <<>>
    /\ history = <<>>

NextWorker ==
    \/ \E db_ok \in BOOLEAN : entrypoint_connect_db(db_ok)
    \/ \E egress \in {None, "EG_1"} : entrypoint_find_one(egress)
    \/ \E started \in BOOLEAN : entrypoint_session_start(started)
    \/ entrypoint_wait_for_participant
    \/ \E replied \in BOOLEAN : entrypoint_generate_reply(replied)
    \/ \E p \in Participants : ParticipantJoins(p)
    \/ \E p \in Participants : ParticipantDisconnects(p)
    \/ \E role \in Roles, text \in Texts : on_conversation_item(role, text)
    \/ \E i \in 1..MaxEndCalls, delivery \in Deliveries : RunTask(i, delivery)
    \/ Tick

SpecWorker == InitWorker /\ [][NextWorker]_vars

\* A job for assistant 1, to which any list of tool ids is attached, over a
\* collection of webhook tools with a url, each active or soft-deleted.
AgentToolCollections ==
    UNION { [1..n -> BOOLEAN] : n \in 0..MaxBuilderTools }

InitAgent ==
    /\ api_keys = <<>>
    /\ \E tool_ids \in ToolIdLists :
            assistants = <<[AssistantDocument(1, None, None) EXCEPT !.tool_ids = tool_ids]>>
    /\ \E active \in AgentToolCollections :
            tools = [i \in DOMAIN active |->
                        ToolDocument(i, "webhook", [url |-> "https://hook"], active[i])]
    /\ trunks = <<>>
    /\ now = 0
    /\ resp = Idle
    /\ built = NotRun
    /\ invocation = NotRun
    /\ call_records = <<>>
    /\ job \in {NewJob(ServiceRoom, m) : m \in JobMetadata}
    /\ room = NoRoom
    /\ tasks = <<>>
    /\ posts = <<>>
    /\ history = <<>>

SpecAgent == InitAgent /\ [][NextWorker]_vars

\* The record of the room after a first turn "hi" of the assistant, stored
\* by an add_transcript that ran alone at time 0.
FirstTurnRecord ==
    [room_name |-> ServiceRoom, assistant_id |-> split_first(ServiceRoom),
     assistant_name |-> "asst", to_number |-> "+15550100",
     recording_path |-> None,
     transcripts |-> <<[speaker |-> "assistant", text |-> "hi", timestamp |-> 0]>>,
     started_at |-> 0, ended_at |-> NoTime, call_duration_minutes |-> NoTime]

\* The call-record methods of the service, called as their signatures
\* allow, with the event loop interleaving the tasks, for a room that has no
\* record yet or the record of its first turn.
InitService ==
    /\ api_keys = <<>>
    /\ assistants \in WorkerAssistants
    /\ tools = <<>>
    /\ trunks = <<>>
    /\ now = 0
    /\ resp = Idle
    /\ built = NotRun
    /\ invocation = NotRun
    /\ call_records \in {<<>>, <<FirstTurnRecord>>}
    /\ job = NoJob
    /\ room = NoRoom
    /\ tasks = <<>>
    /\ posts = <<>>
    /\ history = <<>>

NextService ==
    \/ \E role \in Roles, text \in {"hello"} : AddTranscriptCalled(role, text)
    \/ EndCallCalled
    \/ \E i \in 1..(MaxItems + MaxEndCalls), delivery \in Deliveries : RunTask(i, delivery)
    \/ Tick

SpecService == InitService /\ [][NextService]_vars

\* The payload in full: every body of the assistant and tool schemas, with
\* the clock running, for a single caller.
FieldsCaller == "a@x.io"
FieldsTokens == 0..1

NextFields ==
    \/ SendResponse
    \/ Tick
    \/ create_api_key(FieldsCaller)
    \/ \E token \in FieldsTokens, body \in CreateAssistantBodies :
            Len(assistants) < MaxFieldsDocs /\ create_assistant(token, body)
    \/ \E token \in FieldsTokens, id \in AssistantIds, body \in UpdateAssistantBodies :
            update_assistant(token, id, body)
    \/ \E token \in FieldsTokens, id \in AssistantIds : get_assistant_details(token, id)
    \/ \E token \in FieldsTokens, body \in CreateToolBodies :
            Len(tools) < MaxFieldsDocs /\ create_tool(token, body)
    \/ \E token \in FieldsTokens, id \in ToolIds, body \in UpdateToolBodies :
            update_tool(token, id, body)
    \/ \E token \in FieldsTokens, id \in ToolIds : get_tool_details(token, id)
    \/ \E token \in FieldsTokens, id \in AssistantIds, ids \in ToolIdLists :
            attach_tools(token, id, ids)

SpecFields == Init /\ [][NextFields]_vars

\* One caller with one assistant and one tool, and attach, detach and
\* delete requests whose handlers interleave.
RaceToolIdLists == {<<id>> : id \in ToolIds}

NextRaces ==
    \/ SendResponse
    \/ create_api_key(FieldsCaller)
    \/ \E body \in BasicCreateAssistantBodies :
            Len(assistants) < MaxFieldsDocs /\ create_assistant(1, body)
    \/ \E body \in BasicCreateToolBodies :
            Len(tools) < MaxFieldsDocs /\ create_tool(1, body)
    \/ \E token \in FieldsTokens, ids \in RaceToolIdLists :
            RequestReceived(attach_tools_coro(token, 1, ids))
    \/ \E token \in FieldsTokens, ids \in RaceToolIdLists :
            RequestReceived(detach_tools_coro(token, 1, ids))
    \/ \E token \in FieldsTokens, id \in ToolIds :
            RequestReceived(delete_tool_coro(token, id))
    \/ \E i \in 1..MaxInFlight : attach_tools_step(i)
    \/ \E i \in 1..MaxInFlight : detach_tools_step(i)
    \/ \E i \in 1..MaxInFlight : delete_tool_step(i)

SpecRaces == Init /\ [][NextRaces]_vars

-----------------------------------------------------------------------------
(* Properties.                                                              *)

\* The token is the api_key of a record whose is_active is true.
HasActiveKey(token) ==
    \E i \in DOMAIN api_keys : api_keys[i].api_key = token /\ api_keys[i].is_active

\* The e-mail address of the caller who presents the token.
EmailOf(token) ==
    api_keys[CHOOSE i \in DOMAIN api_keys : api_keys[i].api_key = token].user_email

\* The id resolves to an active tool (assistant) created by the caller.
ResolvesToOwnActiveTool(id, email) ==
    \E i \in DOMAIN tools :
        /\ tools[i].tool_id = id
        /\ tools[i].tool_created_by_email = email
        /\ tools[i].tool_is_active
ResolvesToOwnActiveAssistant(id, email) ==
    \E i \in DOMAIN assistants :
        /\ assistants[i].assistant_id = id
        /\ assistants[i].assistant_created_by_email = email
        /\ assistants[i].assistant_is_active

\* The id names a document created by somebody else.
OthersAssistant(id, email) ==
    \E i \in DOMAIN assistants :
        assistants[i].assistant_id = id /\ assistants[i].assistant_created_by_email # email
OthersTool(id, email) ==
    \E i \in DOMAIN tools :
        tools[i].tool_id = id /\ tools[i].tool_created_by_email # email

\* The step leaves every document created by somebody else as it was.
OthersUnchanged(email) ==
    /\ api_keys' = api_keys
    /\ trunks' = trunks
    /\ Len(assistants') = Len(assistants)
    /\ Len(tools') = Len(tools)
    /\ \A i \in DOMAIN assistants :
            assistants[i].assistant_created_by_email # email => assistants'[i] = assistants[i]
    /\ \A i \in DOMAIN tools :
            tools[i].tool_created_by_email # email => tools'[i] = tools[i]

\* s without every occurrence of a member of xs, the rest in order.
RECURSIVE RemoveAll(_, _)
RemoveAll(s, xs) ==
    IF s = <<>> THEN <<>>
    ELSE IF Head(s) \in xs THEN RemoveAll(Tail(s), xs)
    ELSE <<Head(s)>> \o RemoveAll(Tail(s), xs)

NoDuplicates(s) == \A i, j \in DOMAIN s : s[i] = s[j] => i = j

\* The routes that depend on get_current_user.
AuthenticatedOps ==
    {"check_api_key", "create_assistant", "update_assistant", "list_assistants",
     "get_assistant_details", "create_tool", "update_tool", "list_tools",
     "get_tool_details", "delete_tool", "attach_tools", "detach_tools",
     "create_outbound_trunk", "list_sip_trunks", "trigger_outbound_call"}

\* C1: an authenticated route called with a token that matches no API key
\* record, or a record that is not active, answers 401 and changes no
\* stored document.
C1_BadTokenIs401 ==
    [][(resp'.op \in AuthenticatedOps /\ ~HasActiveKey(resp'.token))
            => (resp'.status = 401 /\ UNCHANGED store)]_vars

\* A deletion has been answered 401 for the token of a deactivated key
\* record, with a tool in the store.
C1_Witness ==
    /\ resp.status = 401
    /\ resp.op = "delete_tool"
    /\ tools # <<>>
    /\ \E i \in DOMAIN api_keys :
            api_keys[i].api_key = resp.token /\ ~api_keys[i].is_active

\* C2: a list of assistants, trunks or tools holds only documents created by
\* the caller whose is_active is true.
C2_ListOnlyOwnActive ==
    /\ (resp.op = "list_assistants" /\ resp.status = 200) =>
            \A k \in DOMAIN resp.data.items :
                \E i \in DOMAIN assistants :
                    /\ assistants[i].assistant_id = resp.data.items[k].assistant_id
                    /\ assistants[i].assistant_created_by_email = resp.caller
                    /\ assistants[i].assistant_is_active
    /\ (resp.op = "list_tools" /\ resp.status = 200) =>
            \A k \in DOMAIN resp.data.items :
                \E i \in DOMAIN tools :
                    /\ tools[i].tool_id = resp.data.items[k].tool_id
                    /\ tools[i].tool_created_by_email = resp.caller
                    /\ tools[i].tool_is_active
    /\ (resp.op = "list_sip_trunks" /\ resp.status = 200) =>
            \A k \in DOMAIN resp.data.items :
                \E i \in DOMAIN trunks :
                    /\ trunks[i].trunk_id = resp.data.items[k].trunk_id
                    /\ trunks[i].trunk_created_by_email = resp.caller
                    /\ trunks[i].trunk_is_active

\* A tool list that returns one tool while the store holds a deleted tool of
\* the caller.
C2_Witness ==
    /\ resp.op = "list_tools"
    /\ resp.status = 200
    /\ Len(resp.data.items) = 1
    /\ \E i \in DOMAIN tools :
            tools[i].tool_created_by_email = resp.caller /\ ~tools[i].tool_is_active

\* The step answers a request to the given route.
Answers(op) == IsIdle /\ resp'.op = op

\* The request list names a tool created by somebody else.
NamesOthersTool(request_tool_ids, email) ==
    \E k \in DOMAIN request_tool_ids : OthersTool(request_tool_ids[k], email)

TtsAccepted(model, voice_id, speaker) ==
    \/ model = "cartesia" /\ Truthy(voice_id) /\ ~Truthy(speaker)
    \/ model = "sarvam" /\ Truthy(speaker) /\ ~Truthy(voice_id)

C5_StoredSelectorMatchesProvider ==
    \A i \in DOMAIN assistants :
        TtsAccepted(assistants[i].assistant_tts_model,
                    assistants[i].assistant_tts_voice_id,
                    assistants[i].assistant_tts_speaker)

\* The fields of a document after an update: the supplied ones from the body,
\* the two stamps, every other as before.
UpdatedAs(doc, body, at, by, email) ==
    [f \in DOMAIN doc |->
        IF f \in Supplied(body) THEN body[f]
        ELSE IF f = at THEN now
        ELSE IF f = by THEN email
        ELSE doc[f]]

\* C10: a successful assistant or tool update changes exactly the supplied
\* fields, updated_at and updated_by of the named document; its id, creator,
\* created_at, is_active, unsupplied fields and tool_ids, and every other
\* document, stay as they were.  An update without a field is answered 400
\* and changes nothing.
C10_UpdateTouchesSuppliedOnly ==
    [][(IsIdle /\ HasActiveKey(resp'.token)) =>
        LET token == resp'.token
            A == EmailOf(token)
        IN
        /\ Answers("update_assistant") =>
              \A id \in AssistantIds, body \in UpdateAssistantBodies :
                 update_assistant(token, id, body) =>
                    /\ Supplied(body) = {} => (resp'.status = 400 /\ UNCHANGED store)
                    /\ resp'.status # 200 => UNCHANGED store
                    /\ resp'.status = 200 =>
                          /\ UNCHANGED <<api_keys, tools, trunks>>
                          /\ Len(assistants') = Len(assistants)
                          /\ \A i \in DOMAIN assistants :
                                assistants'[i] =
                                    IF assistants[i].assistant_id = id
                                    THEN UpdatedAs(assistants[i], body, "assistant_updated_at",
                                                   "assistant_updated_by_email", A)
                                    ELSE assistants[i]
        /\ Answers("update_tool") =>
              \A id \in ToolIds, body \in UpdateToolBodies :
                 update_tool(token, id, body) =>
                    /\ Supplied(body) = {} => (resp'.status = 400 /\ UNCHANGED store)
                    /\ resp'.status # 200 => UNCHANGED store
                    /\ resp'.status = 200 =>
                          /\ UNCHANGED <<api_keys, assistants, trunks>>
                          /\ Len(tools') = Len(tools)
                          /\ \A i \in DOMAIN tools :
                                tools'[i] =
                                    IF tools[i].tool_id = id
                                    THEN UpdatedAs(tools[i], body, "tool_updated_at",
                                                   "tool_updated_by_email", A)
                                    ELSE tools[i]]_vars

\* An update has succeeded on an assistant that has a tool attached, later
\* than its creation.
C10_Witness ==
    /\ resp.op = "update_assistant"
    /\ resp.status = 200
    /\ \E i \in DOMAIN assistants :
            /\ assistants[i].assistant_id = resp.data.assistant_id
            /\ assistants[i].assistant_updated_at > assistants[i].assistant_created_at
            /\ assistants[i].tool_ids # <<>>
            /\ assistants[i].assistant_tts_model = "sarvam"

\* The assistants of the caller whose tool list holds the id.
AttachedTo(id, email) ==
    {i \in DOMAIN assistants :
        /\ assistants[i].assistant_created_by_email = email
        /\ id \in Range(assistants[i].tool_ids)}

\* C6: deleting a tool attached to N of the caller's assistants marks the
\* tool inactive and takes its id out of exactly those N tool lists, the
\* other ids staying in order; every other assistant and every other tool
\* is unchanged.
C6_DeleteSweepsExactly ==
    [][(Answers("delete_tool") /\ resp'.status = 200) =>
        LET token == resp'.token
            A == EmailOf(token)
        IN  \A id \in ToolIds :
              delete_tool(token, id) =>
                /\ Len(tools') = Len(tools)
                /\ \A i \in DOMAIN tools :
                      IF tools[i].tool_id = id
                      THEN ~tools'[i].tool_is_active
                      ELSE tools'[i] = tools[i]
                /\ Len(assistants') = Len(assistants)
                /\ \A i \in DOMAIN assistants :
                      IF i \in AttachedTo(id, A)
                      THEN /\ assistants'[i].tool_ids =
                                  RemoveAll(assistants[i].tool_ids, {id})
                           /\ assistants'[i] =
                                  [assistants[i] EXCEPT !.tool_ids = assistants'[i].tool_ids]
                      ELSE assistants'[i] = assistants[i]
                /\ resp'.data.removed_from = Cardinality(AttachedTo(id, A))]_vars

\* A tool has been deleted that was attached to one of two assistants; a
\* list still holds another id and the deleted id is in no list.
C6_Witness ==
    /\ resp.op = "delete_tool"
    /\ resp.status = 200
    /\ resp.data.removed_from = 1
    /\ Len(assistants) = 2
    /\ \E i \in DOMAIN assistants : assistants[i].tool_ids # <<>>
    /\ \A i \in DOMAIN assistants : resp.data.tool_id \notin Range(assistants[i].tool_ids)

\* The list names an id that is not an active tool of the caller.
NamesUnresolvedTool(request_tool_ids, email) ==
    \E k \in DOMAIN request_tool_ids : ~ResolvesToOwnActiveTool(request_tool_ids[k], email)

\* C7: an attach request with at least one tool id that does not resolve to
\* an active tool of the caller fails (404) as a whole: no id is added and
\* no document, the assistant with its tool list and updated_at included,
\* changes.
C7_AttachRejectsWholeBatch ==
    [][(Answers("attach_tools") /\ HasActiveKey(resp'.token)) =>
        LET token == resp'.token
            A == EmailOf(token)
        IN  \A id \in AssistantIds, ids \in ToolIdLists :
              (NamesUnresolvedTool(ids, A) /\ attach_tools(token, id, ids))
              => (resp'.status = 404 /\ UNCHANGED store)]_vars

\* An attach has been refused for one id, a tool the caller has deleted,
\* while the caller has an active tool and an assistant.
C7_Witness ==
    /\ resp.op = "attach_tools"
    /\ resp.status = 404
    /\ "invalid_ids" \in DOMAIN resp.data
    /\ Len(resp.data.invalid_ids) = 1
    /\ \E i \in DOMAIN tools :
            /\ tools[i].tool_id = resp.data.invalid_ids[1]
            /\ tools[i].tool_created_by_email = resp.caller
            /\ ~tools[i].tool_is_active
    /\ valid_tool_ids(resp.caller) # {}
    /\ \E i \in DOMAIN assistants : assistants[i].assistant_created_by_email = resp.caller

\* C8 as stated: a successful attach is a set union; the resulting list
\* holds every id attached before and every requested id, none twice.
C8_AttachIsSetUnion ==
    [][(Answers("attach_tools") /\ resp'.status = 200) =>
        \A id \in AssistantIds, ids \in ToolIdLists :
            attach_tools(resp'.token, id, ids) =>
                \A i \in DOMAIN assistants :
                    assistants[i].assistant_id = id =>
                        /\ Range(assistants'[i].tool_ids) =
                               Range(assistants[i].tool_ids) \cup Range(ids)
                        /\ NoDuplicates(assistants'[i].tool_ids)]_vars

\* C9 as stated: a detach request with at least one tool id that does not
\* resolve to an active tool of the caller is rejected and leaves the tool
\* list unchanged.
C9_Original ==
    [][(Answers("detach_tools") /\ HasActiveKey(resp'.token)) =>
        LET token == resp'.token
            A == EmailOf(token)
        IN  \A id \in AssistantIds, ids \in ToolIdLists :
              (NamesUnresolvedTool(ids, A) /\ detach_tools(token, id, ids))
              => (resp'.status # 200 /\ assistants' = assistants)]_vars

\* C9 (amended): a detach request with at least one id is rejected as a
\* whole (404, nothing changed) only when the assistant does not resolve to
\* an active assistant of the caller.  The tool ids are not looked up: the
\* request is answered 200, every supplied id is taken out of the list, the
\* other ids stay in order, and the assistant is stamped.
C9_DetachResolvesAssistantOnly ==
    [][(Answers("detach_tools") /\ HasActiveKey(resp'.token)) =>
        LET token == resp'.token
            A == EmailOf(token)
        IN  \A id \in AssistantIds, ids \in ToolIdLists :
              (ids # <<>> /\ detach_tools(token, id, ids)) =>
                 IF ResolvesToOwnActiveAssistant(id, A)
                 THEN /\ resp'.status = 200
                      /\ UNCHANGED <<api_keys, tools, trunks>>
                      /\ Len(assistants') = Len(assistants)
                      /\ \A i \in DOMAIN assistants :
                            assistants'[i] =
                               IF assistants[i].assistant_id = id
                               THEN [assistants[i] EXCEPT
                                       !.tool_ids = RemoveAll(@, Range(ids)),
                                       !.assistant_updated_at = now,
                                       !.assistant_updated_by_email = A]
                               ELSE assistants[i]
                 ELSE resp'.status = 404 /\ UNCHANGED store]_vars

\* A detach has succeeded that named more ids than the caller has active
\* tools, and the assistant keeps a tool.
C9_Witness ==
    /\ resp.op = "detach_tools"
    /\ resp.status = 200
    /\ resp.data.detached > Cardinality(valid_tool_ids(resp.caller))
    /\ \E i \in DOMAIN assistants :
            /\ assistants[i].assistant_created_by_email = resp.caller
            /\ assistants[i].assistant_id # resp.data.assistant_id
            /\ assistants[i].tool_ids # <<>>

-----------------------------------------------------------------------------
(* Outbound calls.                                                          *)

\* The last response answers a request to /call/outbound that got past
\* get_current_user.
CallAnswered ==
    resp.op = "trigger_outbound_call" /\ resp.status # 0 /\ resp.status # 401

\* The request of the last response names an assistant created by its caller.
CallResolves ==
    \E i \in DOMAIN assistants :
        /\ assistants[i].assistant_id = resp.data.assistant_id
        /\ assistants[i].assistant_created_by_email = resp.caller

\* C11: an outbound-call request whose call_service is not twilio is
\* answered 400, one whose assistant id does not resolve to an assistant
\* created by the caller is answered 404, and neither has sent a request to
\* the platform or created a room, a dispatch or a SIP participant there;
\* requests are sent only when the service is twilio and the assistant
\* resolves.
C11_NoPlatformBeforeChecks ==
    CallAnswered =>
        /\ resp.data.call_service # "twilio" =>
                resp.status = 400 /\ resp.data.requests = <<>> /\ resp.data.created = <<>>
        /\ (resp.data.call_service = "twilio" /\ ~CallResolves) =>
                resp.status = 404 /\ resp.data.requests = <<>> /\ resp.data.created = <<>>
        /\ resp.status \in {400, 404} =>
                resp.data.requests = <<>> /\ resp.data.created = <<>>
        /\ resp.data.requests # <<>> =>
                resp.data.call_service = "twilio" /\ CallResolves

\* A call naming somebody else's assistant has been answered 404.
C11_Witness ==
    /\ CallAnswered
    /\ resp.status = 404
    /\ resp.data.call_service = "twilio"
    /\ OthersAssistant(resp.data.assistant_id, resp.caller)
    /\ resp.data.requests = <<>>

\* C12: the platform requests of an outbound call are create_room,
\* create_agent_dispatch, create_sip_participant in this order, each sent
\* once and only when the one before it succeeded; when one of them fails the
\* response is a 500 whose message carries the error of the failed request,
\* and every resource created before the failure is still on the platform.
C12_StepsInOrderNoRollback ==
    (CallAnswered /\ resp.status \notin {400, 404}) =>
        LET requests == resp.data.requests
            created == resp.data.created
        IN  /\ requests # <<>>
            /\ requests = SubSeq(PlatformSteps, 1, Len(requests))
            /\ created = SubSeq(PlatformSteps, 1, Len(created))
            /\ Len(created) \in {Len(requests) - 1, Len(requests)}
            /\ resp.status = 200 <=> created = PlatformSteps
            /\ Len(created) < Len(requests) =>
                    /\ resp.status = 500
                    /\ Len(resp.data.message) = 2
                    /\ resp.data.message[1] = "Internal Server Error: "
                    /\ \E outcome \in PlatformOutcomes :
                            /\ FailsAt(outcome) = Len(requests)
                            /\ resp.data.message[2] = PlatformError(outcome)

\* The bridging request has failed after the room and the dispatch were
\* created.
C12_Witness ==
    /\ CallAnswered
    /\ resp.status = 500
    /\ resp.data.requests = PlatformSteps
    /\ resp.data.created = <<"create_room", "create_agent_dispatch">>

-----------------------------------------------------------------------------
(* Request validation.                                                      *)

\* The step answers a request that fails validation: an assistant creation
\* or update whose TTS fields its schema rejects, or an attach without a
\* tool id.
FailsValidation(token) ==
    \/ /\ Answers("create_assistant")
       /\ \E body \in CreateAssistantBodies :
            /\ ~TtsAccepted(body.assistant_tts_model, body.assistant_tts_voice_id,
                            body.assistant_tts_speaker)
            /\ create_assistant(token, body)
    \/ /\ Answers("update_assistant")
       /\ \E id \in AssistantIds, body \in UpdateAssistantBodies :
            ~UpdateAssistant_validate_tts_fields(body) /\ update_assistant(token, id, body)
    \/ /\ Answers("attach_tools")
       /\ \E id \in AssistantIds : attach_tools(token, id, <<>>)

\* C13 as stated: a request that fails request validation is answered with
\* status 400 and success=false, and no document is persisted.
C13_Original ==
    [][(HasActiveKey(resp'.token) /\ FailsValidation(resp'.token))
            => (resp'.status = 400 /\ ~resp'.data.success /\ UNCHANGED store)]_vars

\* C13 (amended): a request that fails request validation is answered with
\* status 422 and success=false, and no document is persisted.
C13_ValidationIs422 ==
    [][(HasActiveKey(resp'.token) /\ FailsValidation(resp'.token))
            => (resp'.status = 422 /\ ~resp'.data.success /\ UNCHANGED store)]_vars

\* An assistant update has been answered with the validation envelope
\* while an assistant is stored.
C13_Witness ==
    /\ resp.op = "update_assistant"
    /\ resp.status = validation_exception_status
    /\ resp.data = [success |-> FALSE, errors |-> TRUE]
    /\ assistants # <<>>

-----------------------------------------------------------------------------
(* The tool builder.                                                        *)

\* The last invocation was one of a webhook executor.
WebhookInvoked ==
    invocation # NotRun /\ invocation.executor.handler = "webhook_handler"

\* C14: an invocation of a webhook executor never raises to its caller: it
\* sends exactly one POST and returns a value, which on a timeout is the
\* error object "Webhook timed out after <n>s" with the configured timeout
\* n, on a response that is not 2xx an error object naming the status, and
\* on any other failure an error object.
C14_WebhookNeverRaises ==
    WebhookInvoked =>
        /\ ~IsRaised(invocation.result)
        /\ Len(invocation.posts) = 1
        /\ invocation.outcome.kind = "TimeoutException" =>
                /\ DOMAIN invocation.result = {"error"}
                /\ invocation.result.error[1] = "Webhook timed out after "
                /\ invocation.result.error[2] = invocation.executor.timeout
        /\ (invocation.outcome.kind = "response"
                /\ invocation.outcome.status_code \notin 200..299) =>
                /\ DOMAIN invocation.result = {"error"}
                /\ invocation.result.error[2] = invocation.outcome.status_code
        /\ invocation.outcome.kind = "ConnectError" =>
                DOMAIN invocation.result = {"error"}
        /\ (invocation.outcome.kind = "response"
                /\ invocation.outcome.status_code \in 200..299) =>
                "error" \notin DOMAIN invocation.result

\* The executor of the document can be constructed: a webhook with a
\* non-empty url, or a static_return with a value that is not None.
Constructible(doc) ==
    \/ /\ doc.tool_execution_type = "webhook"
       /\ "url" \in DOMAIN doc.tool_execution_config
       /\ Truthy(doc.tool_execution_config.url)
    \/ /\ doc.tool_execution_type = "static_return"
       /\ "value" \in DOMAIN doc.tool_execution_config
       /\ doc.tool_execution_config.value # None

-----------------------------------------------------------------------------
(* The call session.                                                        *)

\* The call records of a room, and the number of transcript entries they
\* hold.
RecordsOf(room_name) == SelectSeq(call_records, LAMBDA r : r.room_name = room_name)
EntriesOf(room_name) ==
    IF RecordsOf(room_name) = <<>> THEN 0 ELSE Len(RecordsOf(room_name)[1].transcripts)

\* No task of the function is scheduled or suspended.
NoTaskOf(fn) == \A i \in DOMAIN tasks : tasks[i].fn # fn

\* C16: once the transcript tasks of a session have run, the call record of
\* its room holds one transcript entry for each conversation item that had
\* text, the record having been created by the first of them, and no record
\* exists when no item had text.
C16_TranscriptPerItem ==
    (job.pc # "none" /\ NoTaskOf("add_transcript")) =>
        /\ Len(RecordsOf(job.room_name)) = (IF room.items = 0 THEN 0 ELSE 1)
        /\ EntriesOf(job.room_name) = room.items

\* The record of the room is stamped: ended_at is set and the duration is
\* the time from started_at to ended_at.
Stamped(r) ==
    /\ r.ended_at # NoTime
    /\ r.call_duration_minutes = r.ended_at - r.started_at

\* C17: when the participants who joined a call have left, the entrypoint
\* has returned and no task is left to run, end-of-call handling has been
\* started for the room and the room's call record is stamped with
\* ended_at and the duration since started_at.
C17_DisconnectFinalizes ==
    (/\ job.pc = "returned"
     /\ "participant_joined" \in Range(history)
     /\ room.left # {}
     /\ room.participants = {}
     /\ tasks = <<>>) =>
        /\ "end_call_started" \in Range(history)
        /\ RecordsOf(job.room_name) # <<>>
        /\ Stamped(RecordsOf(job.room_name)[1])

\* An assistant with a non-empty end-call URL answers to the id.
HasEndCallUrl(assistant_id) ==
    \E i \in DOMAIN assistants : EndCallAssistantMatch(assistants[i], assistant_id)

\* C18: when the end_call tasks for a room whose assistant has a non-empty
\* end-call URL have run, each of them has made one POST to that URL, whose
\* payload is the call record with ended_at and the duration set, whatever
\* number of transcript entries was recorded before; a POST that failed has
\* raised nothing and the stored record stays stamped.
C18_EndCallPostsRecord ==
    (/\ room.end_calls > 0
     /\ tasks = <<>>
     /\ HasEndCallUrl(split_first(ServiceRoom))) =>
        /\ Len(posts) = room.end_calls
        /\ \A k \in DOMAIN posts :
                /\ posts[k].data.room_name = ServiceRoom
                /\ Stamped(posts[k].data)
        /\ RecordsOf(ServiceRoom) # <<>>
        /\ Stamped(RecordsOf(ServiceRoom)[1])

\* The characters of the name before its first underscore, all of them
\* when it has none.
NamePrefix(name) ==
    LET n == CHOOSE k \in 0..Len(name) :
                /\ \A j \in 1..k : name[j] # Underscore
                /\ k = Len(name) \/ name[k + 1] = Underscore
    IN  SubSeq(name, 1, n)

\* The prefix of the job's room name is the id of a stored assistant.
PrefixResolves ==
    \E i \in DOMAIN assistants : IdString(assistants[i].assistant_id) = NamePrefix(job.room_name)

Before(a, b) ==
    \A j \in DOMAIN history :
        history[j] = b => \E i \in 1..(j - 1) : history[i] = a

\* C20: in every run of the entrypoint the assistant is loaded before the
\* recording is requested, the recording requested before the session is
\* started, the session started before the participant is awaited, the
\* greeting issued only when a participant has joined the room, end-of-call
\* handling started and the record stamped only after a participant has
\* disconnected, and the webhook sent only after the record was stamped; a
\* recording request that failed or job metadata that could not be parsed
\* leaves the job at session.start or further.
C20_StepsInOrder ==
    /\ Before("assistant_loaded", "recording_requested")
    /\ Before("recording_requested", "session_started")
    /\ Before("session_started", "participant_awaited")
    /\ Before("participant_awaited", "participant_joined")
    /\ Before("participant_joined", "greeting_issued")
    /\ "greeting_issued" \in Range(history) => room.participants \cup room.left # {}
    /\ Before("participant_disconnected", "end_call_started")
    /\ Before("end_call_started", "call_finalized")
    /\ Before("call_finalized", "webhook_sent")
    /\ (\E e \in Range(history) :
            e \in {"metadata_failed", "recording_failed: TypeError",
                   "recording_failed: AttributeError",
                   "recording_failed: returned failure or empty"}) =>
            /\ "pipeline_constructed" \in Range(history)
            /\ job.pc \in {"session.start", "raised", "wait_for_participant",
                           "generate_reply", "returned"}
            /\ job.pc \in {"raised", "wait_for_participant", "generate_reply", "returned"}
                    <=> \E e \in Range(history) : e \in {"session_started", "session_failed"}

\* A job whose metadata could not be parsed and whose recording request
\* failed has greeted the participant, who then left, and end_call has run.
C20_Witness ==
    /\ job.pc = "returned"
    /\ "metadata_failed" \in Range(history)
    /\ "recording_failed: TypeError" \in Range(history)
    /\ "greeting_done" \in Range(history)
    /\ "end_call_returned" \in Range(history)
    /\ tasks = <<>>

-----------------------------------------------------------------------------
(* API keys.                                                                *)

\* C24: there is at most one API key record per owner e-mail and no two
\* records share a key, however create-key requests interleave; a record is
\* only ever added, and only for an e-mail that has no record, so a request
\* for an e-mail that has one creates no key.
C24_OneKeyPerEmail ==
    /\ [](\A i, j \in DOMAIN api_keys :
            i # j => /\ api_keys[i].user_email # api_keys[j].user_email
                     /\ api_keys[i].api_key # api_keys[j].api_key)
    /\ [][/\ Len(api_keys') >= Len(api_keys)
          /\ \A k \in DOMAIN api_keys : api_keys'[k] = api_keys[k]
          /\ \A k \in DOMAIN api_keys' \ DOMAIN api_keys :
                \A i \in DOMAIN api_keys :
                    api_keys[i].user_email # api_keys'[k].user_email]_vars

\* Two requests for one e-mail have both passed the lookup; the first has
\* inserted its record and the second has been answered 500.
C24_Witness ==
    /\ Len(api_keys) = 1
    /\ tasks = <<>>
    /\ resp.op = "create_api_key"
    /\ resp.status = 500
    /\ api_keys[1].user_email = resp.data.user_email

\* C23: a create-outbound-trunk request of an authenticated caller whose
\* trunk type is not twilio is answered 400 with the message "Trunk type
\* not supported...", sends no request to the platform and stores no trunk
\* record.
C23_UnsupportedTrunkIs400 ==
    [][\A token \in Tokens, trunk_type \in TrunkTypes, platform_ok \in BOOLEAN :
            (/\ HasActiveKey(token)
             /\ trunk_type # "twilio"
             /\ create_outbound_trunk(token, trunk_type, platform_ok)) =>
                /\ resp'.status = 400
                /\ resp'.data.message = trunk_type_not_supported.detail
                /\ resp'.data.requests = <<>>
                /\ trunks' = trunks]_vars

-----------------------------------------------------------------------------
(* The agent's tools.                                                       *)

\* The active tools whose id is in the tool_ids of the job's assistant.
AttachedActiveTools ==
    {t \in Range(tools) : BuildToolsMatch(t, job.assistant.tool_ids)}

\* C22: once the agent of a job is constructed, it carries one callable
\* tool for each active tool whose id is in the tool_ids of the job's
\* assistant.
C22_AgentCarriesAttachedTools ==
    job.pc \in {"session.start", "raised", "wait_for_participant",
                "generate_reply", "returned"} /\ job.assistant # NoDoc =>
        /\ Len(job.agent_tools) = Cardinality(AttachedActiveTools)
        /\ {ft.tool_id : ft \in Range(job.agent_tools)} =
                {t.tool_id : t \in AttachedActiveTools}

-----------------------------------------------------------------------------
(* Tool references.                                                         *)

\* C26: when no attach, detach or delete request is in flight, every id in
\* an assistant's tool_ids is the id of an active tool created by the
\* assistant's owner: no reference to a deleted tool survives, however the
\* handlers of the requests interleaved.
C26_NoDanglingToolIds ==
    tasks = <<>> =>
        \A a \in DOMAIN assistants :
            \A tid \in Range(assistants[a].tool_ids) :
                \E d \in DOMAIN tools :
                    OwnActiveTool(tools[d], tid, assistants[a].assistant_created_by_email)

-----------------------------------------------------------------------------
(* The wait for a participant.                                              *)

\* C25: a job that has reached the wait for a participant stays there for
\* as long as nobody has joined the room: it issues no greeting, registers
\* no disconnect handler, starts no end-of-call handling, sends no webhook
\* and neither returns nor raises.
C25_NoParticipantNoProgress ==
    ("participant_awaited" \in Range(history) /\ room.participants \cup room.left = {}) =>
        /\ job.pc = "wait_for_participant"
        /\ "greeting_issued" \notin Range(history)
        /\ ~job.on_participant_disconnected
        /\ "end_call_started" \notin Range(history)
        /\ NoTaskOf("end_call")
        /\ posts = <<>>

\* The job waits for a participant in an empty room while the clock has
\* run to its bound and the session has emitted its conversation items.
C25_Witness ==
    /\ job.pc = "wait_for_participant"
    /\ room.participants \cup room.left = {}
    /\ now = MaxTime
    /\ room.events = MaxItems

-----------------------------------------------------------------------------
(* Races on the call record.                                                *)

\* The number of occurrences of an event in the history.
Count(e) == Cardinality({j \in DOMAIN history : history[j] = e})

-----------------------------------------------------------------------------
(* End-of-call handling.                                                    *)

\* C28: whatever participants leave the room of a job, end-of-call handling
\* is started at most once, at most one webhook POST is sent, and an
\* ended_at that is stored is never overwritten.
C28_EndCallOncePerRoom ==
    /\ [](Count("end_call_started") <= 1 /\ Len(posts) <= 1)
    /\ [][\A k \in DOMAIN call_records :
            call_records[k].ended_at # NoTime =>
                call_records'[k].ended_at = call_records[k].ended_at]_vars

-----------------------------------------------------------------------------
(* The trunk of an outbound call.                                           *)

\* An active trunk record with the id was created by the caller.
OwnActiveTrunk(trunk_id, email) ==
    \E k \in DOMAIN trunks :
        /\ trunks[k].trunk_id = trunk_id
        /\ trunks[k].trunk_created_by_email = email
        /\ trunks[k].trunk_is_active

\* C29: an outbound-call request has created a SIP participant only if the
\* trunk it names has an active trunk record created by the caller.
C29_CallUsesOwnTrunkOnly ==
    (/\ resp.op = "trigger_outbound_call"
     /\ "created" \in DOMAIN resp.data
     /\ "create_sip_participant" \in Range(resp.data.created)) =>
        OwnActiveTrunk(resp.data.trunk_id, resp.caller)

-----------------------------------------------------------------------------
(* Soft-deleted tools.                                                      *)

\* The id is that of a tool the caller created and has deleted.
DeletedOwnTool(id, email) ==
    \E k \in DOMAIN tools :
        /\ tools[k].tool_id = id
        /\ tools[k].tool_created_by_email = email
        /\ ~tools[k].tool_is_active

\* C30: once a caller has deleted a tool, every later request of the
\* caller for it is answered 404 and changes nothing: an update with a
\* non-empty body, the details, a second delete and an attach of its id.
C30_DeletedToolInvisible ==
    [][(/\ IsIdle
        /\ resp'.op \in {"update_tool", "get_tool_details", "delete_tool", "attach_tools"}
        /\ HasActiveKey(resp'.token)) =>
        LET token == resp'.token
            A == EmailOf(token)
        IN  \A id \in ToolIds :
              DeletedOwnTool(id, A) =>
                /\ \A body \in BasicUpdateToolBodies :
                        (Supplied(body) # {} /\ update_tool(token, id, body))
                            => (resp'.status = 404 /\ UNCHANGED store)
                /\ get_tool_details(token, id) => resp'.status = 404
                /\ delete_tool(token, id) => (resp'.status = 404 /\ UNCHANGED store)
                /\ \A assistant_id \in AssistantIds :
                        attach_tools(token, assistant_id, <<id>>)
                            => (resp'.status = 404 /\ UNCHANGED store)]_vars

====
